---------------------------- MODULE Spec2Model ----------------------------
(***************************************************************************)
(* Model of the MID task trial engine (src/src/mid).                       *)
(*                                                                         *)
(* Time is discrete.  One tick is an arbitrary fraction of a second; the   *)
(* durations of config.py are given in ticks by the definitions below and  *)
(* keep the order relations of the program's values                         *)
(*   0 < JITTER_MAX_S,  MIN_TARGET_DUR_S < MAX_TARGET_DUR_S,               *)
(*   JITTER_MAX_S + MAX_TARGET_DUR_S < STUDY_TIMES_S["response"].          *)
(* A window flip blocks for 1..MaxFrame ticks (frames of varying length).  *)
(* The subject may press one key during each flip, at any tick of it.      *)
(*                                                                         *)
(* Every action takes the environment E it runs in: the frame lengths the  *)
(* display may produce and the keys the subject may press in each phase,   *)
(* and the inputs of a trial (sequence rows, staircase proposals, jitter). *)
(* The specifications differ only in their environment.                    *)
(***************************************************************************)
EXTENDS Integers, Sequences, FiniteSets, TLC

(***************************************************************************)
(* Bounds of the model.                                                    *)
(***************************************************************************)
TwoSec == 8          \* ticks standing for the 2.0 s of every STUDY_TIMES_S entry
JitterMax == 1       \* ticks standing for JITTER_MAX_S
MinTargetDur == 2    \* ticks standing for MIN_TARGET_DUR_S
MaxIntensity == 1    \* ticks standing for MAX_TARGET_DUR_S - MIN_TARGET_DUR_S
MaxFrame == 3        \* longest flip, in ticks
MaxPresses == 2      \* most keys the subject presses in one trial
MaxTrials == 2       \* rows of the sequence file
MaxIti == 2          \* largest n_iti of a row
MaxPulseSteps == 4   \* steps of time in which the board counts pulses
MaxCalls == 3        \* PulseCounter calls made on the counter on its own

(***************************************************************************)
(* config.py                                                               *)
(***************************************************************************)
\* Faulty variant: the nominal length of a post-outcome fixation is longer.
STUDY_TIMES_long_iti ==
    [cue |-> TwoSec, fixation |-> TwoSec, response |-> TwoSec,
     outcome |-> TwoSec, iti |-> TwoSec + 1]

STUDY_TIMES_S ==
    [cue |-> TwoSec, fixation |-> TwoSec, response |-> TwoSec,
     outcome |-> TwoSec, iti |-> TwoSec]

CUE_TYPES == {"gain", "loss", "neutral"}
REWARD_DOLLARS == [gain |-> 5, loss |-> -5, neutral |-> 0]
TARGET_ACCURACIES == {80, 50, 20}
MIN_TARGET_DUR_S == MinTargetDur
MAX_TARGET_DUR_S == MinTargetDur + MaxIntensity
JITTER_MAX_S == JitterMax
SCANNER_PULSE_RATE == 46
MR_SETTINGS == [TR |-> TwoSec]
INITIAL_FIX_DUR_S == 6 * TwoSec
CLOSING_FIX_DUR_S == 4 * TwoSec

\* EXP_KEYS are the response keys, QUIT_KEYS the keys _check_quit polls for.
EXP_KEYS == {"1"}
QUIT_KEYS == {"escape"}

Rows ==
    [cue_type : CUE_TYPES, target_accuracy : TARGET_ACCURACIES, n_iti : 1..MaxIti]

VARIABLES
    pc,                   \* position of the control thread
    now,                  \* global_clock.getTime(), in ticks
    keyBuffer,            \* psychopy.event's key buffer: <<[key, ts]>>
    kbClockReset,         \* kb.clock's last reset time
    timer_end,            \* CountdownTimer of the running phase: time it reaches 0
    phase_start,          \* run_response: start of phase_clock
    trial_n, row,         \* run(): the trial being run and its sequence row
    jitter_s, intensity,  \* run_trial locals
    early_press, hit, rt_s,
    target_shown, target_removed, clock_reset_scheduled,
    reward_outcome, total_earned,
    nominal_time, tr_within, scan_phases, iti_done,
    time_onset,
    pulse_last, pulse_ct, \* PulseCounter._last, run()'s pulse_ct
    responses,            \* handler.addResponse calls, per staircase name
    behavioral, scan_log, \* rows appended to the two CSV writers
    sequence,             \* the rows of the sequence file iterated so far
    \* History variables: they record what happened and are never read by
    \* the program.
    n_presses,            \* keys the subject has pressed during this trial
    pressed_in,           \* phases of this trial in which a response key was pressed
                          \* (and "quit" once a quit key was pressed)
    consumed,             \* response events this trial's polls consumed:
                          \* <<[rt, visible]>>, visible = target not yet removed
    pulse_calls,          \* the PulseCounter calls made (of this trial, in a
                          \* run): <<[op, cache, read, delta, ct, n_phases]>>
    iti_log,              \* this trial's ITI iterations:
                          \* <<[start, drift, dur, flips, end]>>
    draws,                \* raw proposals next(handler) returned, per staircase
                          \* name
    target_draws,         \* draw_target calls of this trial, and the lengths of
                          \* the response phase's flips: [n, frames]
    prev_jitters,         \* jitter_ms of the trials of an earlier run of the same
                          \* subject over the same sequence
    files,                \* the two CSV files, each [disk, buf]: the lines on
                          \* disk and the lines still in the file object's buffer
    emitted,              \* append calls of the run, in call order: <<[stream, trial_n]>>
    seq_file,             \* the sequence file of the run: [exists, columns]
    fmri,                 \* session_info.fmri: the run is a scanner run
    mcculw,               \* whether the DAQ library mcculw can be imported here
    backend,              \* the ScannerBackend of the run: "none" before make_backend
    run_log,              \* the steps of run() around the trial loop, in order
    \* HardwareBackend: the board's pulse counter, where the PulseCounter is
    \* exercised on its own (the emulated count is Read(now)).
    hw_count

vars ==
    <<pc, now, keyBuffer, kbClockReset, timer_end, phase_start, trial_n, row,
      jitter_s, intensity, early_press, hit, rt_s, target_shown, target_removed,
      clock_reset_scheduled, reward_outcome, total_earned, nominal_time,
      tr_within, scan_phases, iti_done, time_onset, pulse_last, pulse_ct,
      responses, behavioral, scan_log, sequence, n_presses, pressed_in,
      consumed, pulse_calls, iti_log, draws, target_draws, prev_jitters,
      files,
      emitted,
      seq_file,
      fmri, mcculw, backend, run_log,
      hw_count>>

trialLocals ==
    <<jitter_s, intensity, early_press, hit, rt_s, target_shown, target_removed,
      clock_reset_scheduled, reward_outcome>>

driverVars == <<fmri, mcculw, backend, run_log>>

\* run() up to the head of the trial loop, in its steps
StartLog == <<"scan_start", "clock_reset", "initial_fixation", "nominal_time">>


(***************************************************************************)
(* psychopy.event: the key buffer.  getKeys(keyList) returns the buffered  *)
(* events whose key is in keyList and removes exactly those; with          *)
(* timeStamped=clock each is returned with ts - clock's last reset time.   *)
(***************************************************************************)
GetKeys(buf, keyList) == SelectSeq(buf, LAMBDA e : e.key \in keyList)
DropKeys(buf, keyList) == SelectSeq(buf, LAMBDA e : e.key \notin keyList)

\* What the subject may do during a flip of d ticks that starts at time t:
\* nothing, or press one key at one of its ticks.
Presses(t, d, K) ==
    {<<>>} \cup {<<[key |-> k, ts |-> t + o]>> : k \in K, o \in 1..d}

int(b) == IF b THEN 1 ELSE 0
Max(a, b) == IF a >= b THEN a ELSE b
\* Faulty variant: the first element is taken for the last.
First(s) == s[1]

Last(s) == s[Len(s)]

(***************************************************************************)
(* scanner.py: EmulatedBackend.read and PulseCounter.                      *)
(***************************************************************************)
\* EmulatedBackend.read at global time t (the emulation clock starts with the
\* global clock): int(elapsed / TR * pulse_rate).
Read(t) == (t * SCANNER_PULSE_RATE) \div MR_SETTINGS.TR

\* Faulty variant: drain discards the pulses it finds.
drain_discards(t) == 0

\* PulseCounter.drain at time t: the delta it returns.
drain(t) == Max(0, Read(t) - pulse_last)

\* PulseCounter.wait_for_tr called at time t: the time at which it returns,
\* the first poll with read() >= _last + pulse_rate.
WaitEnd(t) ==
    CHOOSE w \in t..(t + MR_SETTINGS.TR + 1) :
        /\ Read(w) >= pulse_last + SCANNER_PULSE_RATE
        /\ \A u \in t..(w - 1) : Read(u) < pulse_last + SCANNER_PULSE_RATE

(***************************************************************************)
(* recorder.py: ScanPhase and TrialRecord.                                 *)
(***************************************************************************)
ScanPhase(n, phase, tr_n, gtime, ttime, pct) ==
    [trial_n |-> n, phase |-> phase, tr_n |-> tr_n,
     phase_global_time |-> gtime, phase_trial_time |-> ttime, pulse_ct |-> pct]

(***************************************************************************)
(* recorder.py: the CSV writers.  A file is the lines that reached the     *)
(* disk and the lines still held in the file object's buffer; a line is    *)
(* the tuple of its cells, a cell the text csv writes for a value.         *)
(***************************************************************************)
BEHAVIORAL_COLUMNS ==
    <<"trial_n", "cue_type", "reward", "target_accuracy", "quest",
      "quest_intensity", "time_onset", "jitter_ms", "target_dur_ms",
      "early_press", "hit", "rt_ms", "reward_outcome", "total_earned",
      "time_trial_end", "time_sched_end", "timing_drift_ms", "total_trs",
      "pulse_ct">>

SCAN_LOG_COLUMNS ==
    <<"trial_n", "phase", "tr_n", "phase_global_time", "phase_trial_time",
      "pulse_ct">>

\* the columns whose values are strings already
TextColumns == {"cue_type", "quest", "reward_outcome", "phase"}

\* csv's text for the value of column c: str() of a number, the string
\* itself, and the empty string the record carries for a missing rt
cell(record, c) ==
    IF c \in TextColumns THEN record[c]
    ELSE IF c = "rt_ms"
         THEN IF record[c] = <<>> THEN "" ELSE ToString(record[c][1])
         ELSE ToString(record[c])

\* CsvWriter.__init__: open(path, "w") and writeheader()
CsvWriter(columns) == [disk |-> <<>>, buf |-> <<columns>>]

\* DictWriter.writerow: one more line in the buffer
writerow(file, record, columns) ==
    [file EXCEPT !.buf = Append(@, [i \in 1..Len(columns) |-> cell(record, columns[i])])]

\* Faulty variant: the buffer stays where it is.
flush_nothing(file) == file

\* file.flush(): the buffered lines reach the disk
flush(file) == [disk |-> file.disk \o file.buf, buf |-> <<>>]

\* Faulty variant: a row is written and left in the buffer.
append_unflushed(file, record, columns) == writerow(file, record, columns)

\* CsvWriter.append
append(file, record, columns) == flush(writerow(file, record, columns))

\* run(): for sp in scan_phases: scan_log_writer.append(sp)
RECURSIVE append_each(_, _, _)
append_each(file, records, columns) ==
    IF records = <<>> THEN file
    ELSE append_each(append(file, records[1], columns), Tail(records), columns)

(***************************************************************************)
(* staircase.py: next_intensity clips the staircase's raw proposal.        *)
(***************************************************************************)
\* Faulty variant: the raw proposal is used as it comes.
next_intensity_unclipped(raw) == raw

next_intensity(raw) ==
    LET max_intensity == MAX_TARGET_DUR_S - MIN_TARGET_DUR_S
    IN  IF raw < 0 THEN 0 ELSE IF raw > max_intensity THEN max_intensity ELSE raw

\* Faulty variant: every row is served by the staircase of the 80% level.
QUEST_NAME_high(acc) == "high"

QUEST_NAME(acc) == CASE acc = 80 -> "high" [] acc = 50 -> "medium" [] acc = 20 -> "low"

\* Faulty variant: a loss trial loses $5 whether or not it was hit.
RewardLossIgnoresHit(h, cue_type, total) ==
    IF cue_type = "gain"
    THEN IF h THEN <<"+$5", total + 5>> ELSE <<"$0", total>>
    ELSE IF cue_type = "loss"
         THEN <<"-$5", total - 5>>
         ELSE <<"$0", total>>

(***************************************************************************)
(* trial.py: _compute_reward.                                              *)
(***************************************************************************)
_compute_reward(h, cue_type, total) ==
    IF cue_type = "gain"
    THEN IF h THEN <<"+$5", total + 5>> ELSE <<"$0", total>>
    ELSE IF cue_type = "loss"
         THEN IF h THEN <<"$0", total>> ELSE <<"-$5", total - 5>>
         ELSE <<"$0", total>>

\* Faulty variant: the outcome is computed from 0, not from the total handed in.
run_outcome_from_zero(h, cue_type, total) == _compute_reward(h, cue_type, 0)

\* run_outcome's return value (its display loop is OutIter).
run_outcome(h, cue_type, total) == _compute_reward(h, cue_type, total)

(***************************************************************************)
(* Init: the state of run() when it enters the trial loop.  The initial    *)
(* fixation has just ended (its last flip may overrun), nominal_time is    *)
(* seeded from the clock, the pulse counter was built before scan start.   *)
(***************************************************************************)
NoRow == [cue_type |-> "neutral", target_accuracy |-> 50, n_iti |-> 1]

Init ==
    /\ pc = "run"
    /\ now = INITIAL_FIX_DUR_S
    /\ keyBuffer = <<>>
    /\ kbClockReset = 0
    /\ timer_end = 0
    /\ phase_start = 0
    /\ trial_n = 0
    /\ row = NoRow
    /\ jitter_s = 0
    /\ intensity = 0
    /\ early_press = FALSE
    /\ hit = FALSE
    /\ rt_s = <<>>
    /\ target_shown = FALSE
    /\ target_removed = FALSE
    /\ clock_reset_scheduled = FALSE
    /\ reward_outcome = "$0"
    /\ total_earned = 0
    /\ nominal_time = now
    /\ tr_within = 0
    /\ scan_phases = <<>>
    /\ iti_done = 0
    /\ time_onset = 0
    /\ pulse_last = 0
    /\ pulse_ct = 0
    /\ responses = [q \in {"high", "medium", "low"} |-> <<>>]
    /\ behavioral = <<>>
    /\ scan_log = <<>>
    /\ sequence = <<>>
    /\ n_presses = 0
    /\ pressed_in = {}
    /\ consumed = <<>>
    /\ pulse_calls = <<>>
    /\ iti_log = <<>>
    /\ draws = [q \in {"high", "medium", "low"} |-> <<>>]
    /\ target_draws = [n |-> 0, frames |-> {}]
    /\ prev_jitters = <<>>
    /\ files = [behavioral |-> CsvWriter(BEHAVIORAL_COLUMNS),
                scan_log |-> CsvWriter(SCAN_LOG_COLUMNS)]
    /\ emitted = <<>>
    /\ seq_file = [exists |-> TRUE,
                   columns |-> {"cue_type", "target_accuracy", "n_iti"}]
    /\ fmri = FALSE
    /\ mcculw = FALSE
    /\ backend = "emulated"
    /\ run_log = StartLog
    /\ hw_count = 0


(***************************************************************************)
(* win.flip() followed by _check_quit(kb): the frame takes d ticks, the    *)
(* keys pressed during it join the buffer, and a buffered quit key ends    *)
(* the process (core.quit()).                                              *)
(***************************************************************************)
_check_quit(buf) == GetKeys(buf, QUIT_KEYS) # <<>>

\* History: the phase in which the keys p were pressed, if any is a response key.
PressedIn(p, phase) == IF GetKeys(p, EXP_KEYS) # <<>> THEN {phase} ELSE {}

\* History: whether a quit key is among the keys p.
QuitPressedIn(p) == IF GetKeys(p, QUIT_KEYS) # <<>> THEN {"quit"} ELSE {}

FlipAndCheckQuit(d, p, here) ==
    LET buf == keyBuffer \o p
    IN  /\ now' = now + d
        /\ keyBuffer' = DropKeys(buf, QUIT_KEYS)
        /\ pc' = IF _check_quit(buf) THEN "quit" ELSE here
        /\ n_presses' = n_presses + Len(p)
        /\ pressed_in' = pressed_in \cup PressedIn(p, here) \cup QuitPressedIn(p)
        /\ UNCHANGED consumed

\* History: a call of the pulse counter that read curr and returned delta,
\* made when n phase records of the trial had been emitted.
PulseCall(op, curr, delta, n) ==
    [op |-> op, cache |-> pulse_last, read |-> curr, delta |-> delta,
     ct |-> pulse_ct, n_phases |-> n]

\* Faulty variant: the phase record carries the TR count before its increment.
BoundaryStaleTrN(t1, phase) ==
    /\ now' = t1
    /\ pulse_ct' = pulse_ct + (Read(t1) - pulse_last)
    /\ pulse_last' = Read(t1)
    /\ tr_within' = tr_within + 1
    /\ scan_phases' = Append(scan_phases,
           ScanPhase(trial_n, phase, tr_within, t1, t1 - time_onset,
                     pulse_ct + (Read(t1) - pulse_last)))
    /\ pulse_calls' = Append(pulse_calls,
           PulseCall("wait_for_tr", Read(t1), Read(t1) - pulse_last,
                     Len(scan_phases)))

\* Faulty variant: the boundary of an ITI drains instead of waiting for a TR.
BoundaryItiDrains(t1, phase) ==
    LET iti == phase = "post-outcome-fixation"
        t == IF iti THEN now ELSE t1
        delta == IF iti THEN drain(t) ELSE Read(t) - pulse_last
    IN  /\ now' = t
        /\ pulse_ct' = pulse_ct + delta
        /\ pulse_last' = Read(t)
        /\ tr_within' = tr_within + 1
        /\ scan_phases' = Append(scan_phases,
               ScanPhase(trial_n, phase, tr_within + 1, t, t - time_onset,
                         pulse_ct + delta))
        /\ pulse_calls' = Append(pulse_calls,
               PulseCall(IF iti THEN "drain" ELSE "wait_for_tr", Read(t), delta,
                         Len(scan_phases)))

\* Faulty variant: the boundary of an ITI does not count a TR.
BoundaryItiNotCounted(t1, phase) ==
    /\ now' = t1
    /\ pulse_ct' = pulse_ct + (Read(t1) - pulse_last)
    /\ pulse_last' = Read(t1)
    /\ tr_within' = IF phase = "post-outcome-fixation" THEN tr_within
                    ELSE tr_within + 1
    /\ scan_phases' = Append(scan_phases,
           ScanPhase(trial_n, phase, tr_within + 1, t1, t1 - time_onset,
                     pulse_ct + (Read(t1) - pulse_last)))
    /\ pulse_calls' = Append(pulse_calls,
           PulseCall("wait_for_tr", Read(t1), Read(t1) - pulse_last,
                     Len(scan_phases)))

\* The phase boundary of run_trial: wait_for_tr, clock snapshot, ScanPhase.
\* t1 is the time at which wait_for_tr returns.
Boundary(t1, phase) ==
    /\ now' = t1
    /\ pulse_ct' = pulse_ct + (Read(t1) - pulse_last)
    /\ pulse_last' = Read(t1)
    /\ tr_within' = tr_within + 1
    /\ scan_phases' = Append(scan_phases,
           ScanPhase(trial_n, phase, tr_within + 1, t1, t1 - time_onset,
                     pulse_ct + (Read(t1) - pulse_last)))
    /\ pulse_calls' = Append(pulse_calls,
           PulseCall("wait_for_tr", Read(t1), Read(t1) - pulse_last,
                     Len(scan_phases)))

(***************************************************************************)
(* run(): the head of the trial loop, and run_trial up to run_cue's timer. *)
(***************************************************************************)
TrialStart(E) ==
    /\ pc = "run"
    /\ trial_n < E.n_trials
    /\ "n_iti" \in seq_file.columns     \* __main__.py line 161: int(row["n_iti"])
    /\ \E r \in E.rows, raw \in E.raws, j \in E.jitters :
        /\ row' = r
        /\ sequence' = Append(sequence, r)
        /\ intensity' = next_intensity(raw)
        /\ draws' = [draws EXCEPT ![QUEST_NAME(r.target_accuracy)] = Append(@, raw)]
        /\ jitter_s' = j
    /\ trial_n' = trial_n + 1
    /\ pulse_ct' = pulse_ct + drain(now)
    /\ pulse_last' = Read(now)
    /\ time_onset' = now
    /\ tr_within' = 1
    /\ scan_phases' = <<ScanPhase(trial_n + 1, "cue", 1, now, 0, pulse_ct + drain(now))>>
    /\ timer_end' = now + STUDY_TIMES_S.cue
    /\ pc' = "cue"
    /\ early_press' = FALSE
    /\ hit' = FALSE
    /\ rt_s' = <<>>
    /\ target_shown' = FALSE
    /\ target_removed' = FALSE
    /\ clock_reset_scheduled' = FALSE
    /\ reward_outcome' = "$0"
    /\ iti_done' = 0
    /\ n_presses' = 0
    /\ pressed_in' = {}
    /\ consumed' = <<>>
    /\ pulse_calls' = <<PulseCall("drain", Read(now), drain(now), 0)>>
    /\ iti_log' = <<>>
    /\ target_draws' = [n |-> 0, frames |-> {}]
    /\ UNCHANGED <<driverVars, hw_count, prev_jitters, files, emitted, seq_file>>
    /\ UNCHANGED <<now, keyBuffer, kbClockReset, phase_start, total_earned,
                   nominal_time, responses, behavioral, scan_log>>

\* Faulty variant: the trial loop may be left before the last row.
RunEndEarly(E) ==
    /\ pc = "run"
    /\ trial_n <= E.n_trials
    /\ pc' = "closing"
    /\ UNCHANGED <<now, keyBuffer, kbClockReset, timer_end, phase_start, trial_n,
                   row, trialLocals, total_earned, nominal_time, tr_within,
                   scan_phases, iti_done, time_onset, pulse_last, pulse_ct,
                   responses, behavioral, scan_log,
                   sequence, n_presses, pressed_in, consumed>>
    /\ UNCHANGED <<pulse_calls, iti_log, driverVars, hw_count, draws, target_draws,
                   prev_jitters, files, emitted, seq_file>>

\* run(): the sequence is exhausted.
RunEnd(E) ==
    /\ pc = "run"
    /\ trial_n = E.n_trials
    /\ pc' = "closing"
    /\ UNCHANGED <<now, keyBuffer, kbClockReset, timer_end, phase_start, trial_n,
                   row, trialLocals, total_earned, nominal_time, tr_within,
                   scan_phases, iti_done, time_onset, pulse_last, pulse_ct,
                   responses, behavioral, scan_log,
                   sequence, n_presses, pressed_in, consumed>>
    /\ UNCHANGED <<pulse_calls, iti_log, driverVars, hw_count, draws, target_draws,
                   prev_jitters, files, emitted, seq_file>>

(***************************************************************************)
(* run_cue: one iteration of its loop, and its exit into the fixation      *)
(* boundary and the start of run_fixation.                                 *)
(***************************************************************************)
CueIter(E) ==
    /\ pc = "cue"
    /\ now < timer_end
    /\ \E d \in E.frames.cue : \E p \in Presses(now, d, E.keys.cue) :
        /\ n_presses + Len(p) <= E.presses
        /\ FlipAndCheckQuit(d, p, "cue")
    /\ UNCHANGED <<kbClockReset, timer_end, phase_start, trial_n, row,
                   trialLocals, total_earned, nominal_time, tr_within,
                   scan_phases, iti_done, time_onset, pulse_last, pulse_ct,
                   responses, behavioral, scan_log,
                   sequence>>
    /\ UNCHANGED <<pulse_calls, iti_log, driverVars, hw_count, draws, target_draws,
                   prev_jitters, files, emitted, seq_file>>

\* Faulty variant: run_fixation does not clear the events buffered during the cue.
FixationKeepsBuffer(buf) == buf

\* psy_event.clearEvents() at the head of run_fixation.
FixationStartBuffer(buf) == <<>>

CueExit(E) ==
    /\ pc = "cue"
    /\ now >= timer_end
    /\ nominal_time' = nominal_time + STUDY_TIMES_S.cue
    /\ Boundary(WaitEnd(now), "fixation")
    /\ keyBuffer' = FixationStartBuffer(keyBuffer)
    /\ timer_end' = WaitEnd(now) + STUDY_TIMES_S.fixation
    /\ pc' = "fixation"
    /\ UNCHANGED <<kbClockReset, phase_start, trial_n, row, trialLocals,
                   total_earned, iti_done, time_onset, responses, behavioral,
                   scan_log,
                   sequence, n_presses, pressed_in, consumed>>
    /\ UNCHANGED <<iti_log, driverVars, hw_count, draws, target_draws, prev_jitters,
                   files, emitted, seq_file>>

(***************************************************************************)
(* run_fixation: one iteration, and its exit: the early-press sample, the  *)
(* response boundary and the head of run_response.                         *)
(***************************************************************************)
FixIter(E) ==
    /\ pc = "fixation"
    /\ now < timer_end
    /\ \E d \in E.frames.fixation : \E p \in Presses(now, d, E.keys.fixation) :
        /\ n_presses + Len(p) <= E.presses
        /\ FlipAndCheckQuit(d, p, "fixation")
    /\ UNCHANGED <<kbClockReset, timer_end, phase_start, trial_n, row,
                   trialLocals, total_earned, nominal_time, tr_within,
                   scan_phases, iti_done, time_onset, pulse_last, pulse_ct,
                   responses, behavioral, scan_log,
                   sequence>>
    /\ UNCHANGED <<pulse_calls, iti_log, driverVars, hw_count, draws, target_draws,
                   prev_jitters, files, emitted, seq_file>>

\* run_fixation's return value: a response key is in the buffer at its end.
FixationEarlyPress(buf) == Len(GetKeys(buf, EXP_KEYS)) > 0

FixExit(E) ==
    /\ pc = "fixation"
    /\ now >= timer_end
    /\ early_press' = FixationEarlyPress(keyBuffer)
    /\ nominal_time' = nominal_time + STUDY_TIMES_S.fixation
    /\ Boundary(WaitEnd(now), "response")
    /\ phase_start' = WaitEnd(now)
    /\ target_shown' = FALSE
    /\ target_removed' = FALSE
    /\ clock_reset_scheduled' = FALSE
    /\ hit' = FALSE
    /\ rt_s' = <<>>
    /\ keyBuffer' = <<>>
    /\ pc' = "response"
    /\ UNCHANGED <<kbClockReset, timer_end, trial_n, row, jitter_s, intensity,
                   reward_outcome, total_earned, iti_done, time_onset,
                   responses, behavioral, scan_log,
                   sequence, n_presses, pressed_in, consumed>>
    /\ UNCHANGED <<iti_log, driverVars, hw_count, draws, target_draws, prev_jitters,
                   files, emitted, seq_file>>


(***************************************************************************)
(* run_response: one iteration of its loop (trial.py lines 78-103).        *)
(***************************************************************************)
\* line 82: the iteration that schedules the clock reset and shows the target
OnsetDue(t) == ~clock_reset_scheduled /\ t >= jitter_s

\* Faulty variant of lines 83-84: the event clear is not scheduled on the flip.
OnsetCallbacksNoClear == {"kb.clock.reset"}

\* lines 83-84: the callbacks handed to win.callOnFlip on that iteration
OnsetCallbacks == {"kb.clock.reset", "psy_event.clearEvents"}

\* Faulty variant of line 88: the removal time is counted from the start of
\* the phase, so that the jitter eats into the display.
RemovalDueFromPhaseStart(shown, t) ==
    shown /\ ~target_removed /\ t >= MIN_TARGET_DUR_S + intensity

\* line 88: the target is due for removal
RemovalDue(shown, t) ==
    shown /\ ~target_removed /\ (t - jitter_s) >= MIN_TARGET_DUR_S + intensity

\* Faulty variants of line 96: the poll forgets the early press; forgets the hit.
PollGuardIgnoresEarly(shown) == shown /\ ~hit
PollGuardIgnoresHit(shown) == shown /\ ~early_press

\* line 96: the condition under which the buffer is polled for a response
PollGuard(shown) == shown /\ ~hit /\ ~early_press

\* lines 100-101: a consumed response is a hit
IsHit(removed) == ~removed

\* Faulty variant of line 78: the loop also stops once a hit is scored.
ResponseLoopStopsOnHit(t) == t < STUDY_TIMES_S.response /\ ~hit

\* line 78: the loop condition, on the phase clock's reading t
ResponseLoopRuns(t) == t < STUDY_TIMES_S.response

RspIter(E) ==
    /\ pc = "response"
    /\ ResponseLoopRuns(now - phase_start)
    /\ \E d \in E.frames.response : \E p \in Presses(now, d, E.keys.response) :
        LET t == now - phase_start
            onset == OnsetDue(t)
            callbacks == IF onset THEN OnsetCallbacks ELSE {}
            shown == target_shown \/ onset
            removed == target_removed \/ RemovalDue(shown, t)
            \* win.flip(): the frame passes, then the callbacks run
            reset == IF "kb.clock.reset" \in callbacks THEN now + d ELSE kbClockReset
            buf1 == IF "psy_event.clearEvents" \in callbacks
                    THEN <<>> ELSE keyBuffer \o p
            \* lines 96-101
            poll == PollGuard(shown)
            keys == IF poll THEN GetKeys(buf1, EXP_KEYS) ELSE <<>>
            buf2 == IF poll THEN DropKeys(buf1, EXP_KEYS) ELSE buf1
        IN  /\ n_presses + Len(p) <= E.presses
            /\ now' = now + d
            /\ clock_reset_scheduled' = (clock_reset_scheduled \/ onset)
            /\ target_shown' = shown
            /\ target_removed' = removed
            /\ kbClockReset' = reset
            /\ rt_s' = IF keys # <<>> THEN <<keys[1].ts - reset>> ELSE rt_s
            /\ hit' = IF keys # <<>> /\ IsHit(removed) THEN TRUE ELSE hit
            /\ keyBuffer' = DropKeys(buf2, QUIT_KEYS)
            /\ pc' = IF _check_quit(buf2) THEN "quit" ELSE "response"
            /\ n_presses' = n_presses + Len(p)
            /\ pressed_in' = pressed_in \cup
                   PressedIn(p, IF shown THEN "response" ELSE "response_pre")
                   \cup QuitPressedIn(p)
            /\ consumed' = IF keys # <<>>
                            THEN Append(consumed, [rt |-> keys[1].ts - reset,
                                                   visible |-> ~removed])
                            ELSE consumed
            \* lines 91-92: draw_target is called while the target is up
            \* (kept where the environment asks for it)
            /\ target_draws' = IF E.count_draws
                               THEN [n |-> target_draws.n + int(shown /\ ~removed),
                                     frames |-> target_draws.frames \cup {d}]
                               ELSE target_draws
    /\ UNCHANGED <<timer_end, phase_start, trial_n, row, jitter_s, intensity,
                   early_press, reward_outcome, total_earned, nominal_time,
                   tr_within, scan_phases, iti_done, time_onset, pulse_last,
                   pulse_ct, responses, behavioral, scan_log,
                   sequence>>
    /\ UNCHANGED <<pulse_calls, iti_log, driverVars, hw_count, draws, prev_jitters,
                   files, emitted, seq_file>>

\* Faulty variant: the levels share one handler, which takes every response.
addResponse_shared(handlers, name, response) ==
    [q \in DOMAIN handlers |-> Append(handlers[q], response)]

\* Faulty variant: the response is fed to the handler twice.
addResponse_twice(handlers, name, response) ==
    [handlers EXCEPT ![name] = Append(Append(@, response), response)]

\* handler.addResponse(int(hit)) on the handler of the trial's level, one of
\* the handlers build_staircases made, a separate object per level
addResponse(handlers, name, response) ==
    [handlers EXCEPT ![name] = Append(@, response)]

(***************************************************************************)
(* run_response returns; run_trial updates the staircase, passes the       *)
(* outcome boundary and enters run_outcome (reward, timer).                *)
(***************************************************************************)
RspExit(E) ==
    /\ pc = "response"
    /\ ~ResponseLoopRuns(now - phase_start)
    /\ responses' = addResponse(responses, QUEST_NAME(row.target_accuracy), int(hit))
    /\ nominal_time' = nominal_time + STUDY_TIMES_S.response
    /\ Boundary(WaitEnd(now), "outcome")
    /\ reward_outcome' = run_outcome(hit, row.cue_type, total_earned)[1]
    /\ total_earned' = run_outcome(hit, row.cue_type, total_earned)[2]
    /\ timer_end' = WaitEnd(now) + STUDY_TIMES_S.outcome
    /\ pc' = "outcome"
    /\ UNCHANGED <<keyBuffer, kbClockReset, phase_start, trial_n, row, jitter_s,
                   intensity, early_press, hit, rt_s, target_shown,
                   target_removed, clock_reset_scheduled, iti_done, time_onset,
                   behavioral, scan_log,
                   sequence, n_presses, pressed_in, consumed>>
    /\ UNCHANGED <<iti_log, driverVars, hw_count, draws, target_draws, prev_jitters,
                   files, emitted, seq_file>>

(***************************************************************************)
(* run_outcome: one iteration of its loop, and its exit.                   *)
(***************************************************************************)
OutIter(E) ==
    /\ pc = "outcome"
    /\ now < timer_end
    /\ \E d \in E.frames.outcome : \E p \in Presses(now, d, E.keys.outcome) :
        /\ n_presses + Len(p) <= E.presses
        /\ FlipAndCheckQuit(d, p, "outcome")
    /\ UNCHANGED <<kbClockReset, timer_end, phase_start, trial_n, row,
                   trialLocals, total_earned, nominal_time, tr_within,
                   scan_phases, iti_done, time_onset, pulse_last, pulse_ct,
                   responses, behavioral, scan_log,
                   sequence>>
    /\ UNCHANGED <<pulse_calls, iti_log, driverVars, hw_count, draws, target_draws,
                   prev_jitters, files, emitted, seq_file>>

OutExit(E) ==
    /\ pc = "outcome"
    /\ now >= timer_end
    /\ nominal_time' = nominal_time + STUDY_TIMES_S.outcome
    /\ iti_done' = 0
    /\ pc' = "iti_loop"
    /\ UNCHANGED <<now, keyBuffer, kbClockReset, timer_end, phase_start, trial_n,
                   row, trialLocals, total_earned, tr_within, scan_phases,
                   time_onset, pulse_last, pulse_ct, responses, behavioral,
                   scan_log,
                   sequence, n_presses, pressed_in, consumed>>
    /\ UNCHANGED <<pulse_calls, iti_log, driverVars, hw_count, draws, target_draws,
                   prev_jitters, files, emitted, seq_file>>

(***************************************************************************)
(* The ITI loop of run_trial: the head of one iteration (boundary, drift   *)
(* correction, the head of run_iti), run_iti's loop, and its exit.         *)
(***************************************************************************)
\* Faulty variants of line 339: nominal_time is advanced before it is used;
\* the drift is not subtracted; the drift is added.
iti_dur_after_advance(t) ==
    STUDY_TIMES_S.iti - (t - (nominal_time + STUDY_TIMES_S.iti))
iti_dur_uncorrected(t) == STUDY_TIMES_S.iti
iti_dur_drift_added(t) == STUDY_TIMES_S.iti + (t - nominal_time)
\* Faulty variant: the fixation is a tick shorter than the correction asks.
iti_dur_short(t) == STUDY_TIMES_S.iti - (t - nominal_time) - 1

\* line 339, read at time t: the drift-corrected fixation duration
iti_dur(t) == STUDY_TIMES_S.iti - (t - nominal_time)

ItiHead(E) ==
    /\ pc = "iti_loop"
    /\ iti_done < row.n_iti
    /\ Boundary(WaitEnd(now), "post-outcome-fixation")
    /\ nominal_time' = nominal_time + STUDY_TIMES_S.iti
    /\ IF iti_dur(WaitEnd(now)) <= 0
       THEN /\ pc' = "iti_loop"
            /\ iti_done' = iti_done + 1
            /\ UNCHANGED timer_end
       ELSE /\ pc' = "iti"
            /\ timer_end' = WaitEnd(now) + iti_dur(WaitEnd(now))
            /\ UNCHANGED iti_done
    /\ UNCHANGED <<keyBuffer, kbClockReset, phase_start, trial_n, row,
                   trialLocals, total_earned, time_onset, responses, behavioral,
                   scan_log,
                   sequence, n_presses, pressed_in, consumed>>
    /\ iti_log' = Append(iti_log,
           [start |-> WaitEnd(now), drift |-> WaitEnd(now) - nominal_time,
            dur |-> iti_dur(WaitEnd(now)), flips |-> 0, end |-> WaitEnd(now)])
    /\ UNCHANGED <<driverVars, hw_count, draws, target_draws, prev_jitters, files,
                   emitted, seq_file>>

ItiIter(E) ==
    /\ pc = "iti"
    /\ now < timer_end
    /\ \E d \in E.frames.iti : \E p \in Presses(now, d, E.keys.iti) :
        /\ n_presses + Len(p) <= E.presses
        /\ FlipAndCheckQuit(d, p, "iti")
    /\ UNCHANGED <<kbClockReset, timer_end, phase_start, trial_n, row,
                   trialLocals, total_earned, nominal_time, tr_within,
                   scan_phases, iti_done, time_onset, pulse_last, pulse_ct,
                   responses, behavioral, scan_log,
                   sequence>>
    /\ iti_log' = [iti_log EXCEPT ![Len(iti_log)] =
                       [@ EXCEPT !.flips = @ + 1, !.end = now']]
    /\ UNCHANGED <<pulse_calls, driverVars, hw_count, draws, target_draws, prev_jitters,
                   files, emitted, seq_file>>

ItiExit(E) ==
    /\ pc = "iti"
    /\ now >= timer_end
    /\ iti_done' = iti_done + 1
    /\ pc' = "iti_loop"
    /\ UNCHANGED <<now, keyBuffer, kbClockReset, timer_end, phase_start, trial_n,
                   row, trialLocals, total_earned, nominal_time, tr_within,
                   scan_phases, time_onset, pulse_last, pulse_ct, responses,
                   behavioral, scan_log,
                   sequence, n_presses, pressed_in, consumed>>
    /\ UNCHANGED <<pulse_calls, iti_log, driverVars, hw_count, draws, target_draws,
                   prev_jitters, files, emitted, seq_file>>

(***************************************************************************)
(* run_trial builds the TrialRecord and returns; run() takes pulse_ct from *)
(* the last scan phase and appends the rows to the two writers.            *)
(***************************************************************************)
TrialRecord ==
    [trial_n |-> trial_n,
     cue_type |-> row.cue_type,
     reward |-> REWARD_DOLLARS[row.cue_type],
     target_accuracy |-> row.target_accuracy,
     quest |-> QUEST_NAME(row.target_accuracy),
     \* line 306: handler.thisTrialN + 1, thisTrialN counting the next() calls from 0
     quest_n |-> Len(draws[QUEST_NAME(row.target_accuracy)]),
     quest_intensity |-> intensity,
     time_onset |-> time_onset,
     jitter_ms |-> jitter_s,
     target_dur_ms |-> MIN_TARGET_DUR_S + intensity,
     early_press |-> int(early_press),
     hit |-> int(hit),
     rt_ms |-> rt_s,
     reward_outcome |-> reward_outcome,
     total_earned |-> total_earned,
     time_trial_end |-> now,
     time_sched_end |-> nominal_time,
     timing_drift_ms |-> now - nominal_time,
     total_trs |-> tr_within,
     pulse_ct |-> scan_phases[1].pulse_ct]

BuildRecord(E) ==
    /\ pc = "iti_loop"
    /\ iti_done >= row.n_iti
    /\ pulse_ct' = Last(scan_phases).pulse_ct
    /\ behavioral' = Append(behavioral, TrialRecord)
    /\ scan_log' = scan_log \o scan_phases
    /\ files' = [behavioral |-> append(files.behavioral, TrialRecord, BEHAVIORAL_COLUMNS),
                 scan_log |-> append_each(files.scan_log, scan_phases, SCAN_LOG_COLUMNS)]
    \* __main__.py lines 218-220: the trial's row first, then its phases' rows
    /\ emitted' = emitted \o <<[stream |-> "behavioral", trial_n |-> trial_n]>>
                     \o [i \in 1..Len(scan_phases) |->
                            [stream |-> "scan_log", trial_n |-> scan_phases[i].trial_n]]
    /\ pc' = "run"
    /\ UNCHANGED <<now, keyBuffer, kbClockReset, timer_end, phase_start, trial_n,
                   row, trialLocals, total_earned, nominal_time, tr_within,
                   scan_phases, iti_done, time_onset, pulse_last, responses,
                   sequence, n_presses, pressed_in, consumed>>
    /\ UNCHANGED <<pulse_calls, iti_log, driverVars, hw_count, draws, target_draws,
                   prev_jitters, seq_file>>

Next(E) ==
    \/ TrialStart(E)
    \/ CueIter(E)
    \/ CueExit(E)
    \/ FixIter(E)
    \/ FixExit(E)
    \/ RspIter(E)
    \/ RspExit(E)
    \/ OutIter(E)
    \/ OutExit(E)
    \/ ItiHead(E)
    \/ ItiIter(E)
    \/ ItiExit(E)
    \/ BuildRecord(E)
    \/ RunEnd(E)

(***************************************************************************)
(* Environments.                                                           *)
(***************************************************************************)
Phases == {"cue", "fixation", "response", "outcome", "iti"}
AnyFrame == 1..MaxFrame
Raws == -1..(MaxIntensity + 1)
Jitters == 0..JITTER_MAX_S

\* One trial, input handling in full: frames of every length in the response
\* phase, response keys in cue, fixation and response, the quit key in the
\* fixation and response phases; the staircase proposes every intensity in
\* range (EnvJitter has the proposals out of range).
EnvTrial ==
    [frames |-> [cue |-> {MaxFrame}, fixation |-> {MaxFrame}, response |-> AnyFrame,
                 outcome |-> {MaxFrame}, iti |-> {MaxFrame}],
     keys |-> [cue |-> EXP_KEYS, fixation |-> EXP_KEYS \cup QUIT_KEYS,
               response |-> EXP_KEYS \cup QUIT_KEYS, outcome |-> {}, iti |-> {}],
     rows |-> {r \in Rows : r.target_accuracy = 80 /\ r.n_iti = 1},
     raws |-> 0..MaxIntensity,
     jitters |-> Jitters,
     presses |-> MaxPresses,
     n_trials |-> 1,
     count_draws |-> FALSE]

Spec == Init /\ [][Next(EnvTrial)]_vars


\* A whole run of MaxTrials trials, each over one of three rows, one of every
\* cue kind and accuracy level: frames of fixed length, at most one key a
\* trial, a response key pressed in the response phase.
SampleRows ==
    {[cue_type |-> "gain", target_accuracy |-> 80, n_iti |-> 1],
     [cue_type |-> "loss", target_accuracy |-> 50, n_iti |-> MaxIti],
     [cue_type |-> "neutral", target_accuracy |-> 20, n_iti |-> 1]}

EnvRun ==
    [frames |-> [cue |-> {MaxFrame}, fixation |-> {MaxFrame}, response |-> {1},
                 outcome |-> {MaxFrame}, iti |-> {MaxFrame}],
     keys |-> [cue |-> {}, fixation |-> {}, response |-> EXP_KEYS,
               outcome |-> {}, iti |-> {}],
     rows |-> SampleRows,
     raws |-> {0},
     jitters |-> {0},
     presses |-> 1,
     n_trials |-> MaxTrials,
     count_draws |-> FALSE]

SpecRun == Init /\ [][Next(EnvRun)]_vars

\* A run whose flips may stall: in the cue and outcome phases a flip takes
\* MaxFrame ticks or a whole StallFrame, in the ITI a vsync interval of 1 or
\* MaxFrame ticks.  No key is pressed; a row has no, one or MaxIti ITIs.
StallFrame == TwoSec

DriftRows ==
    {[cue_type |-> "neutral", target_accuracy |-> 50, n_iti |-> n] : n \in {0, 1, MaxIti}}

EnvDrift ==
    [frames |-> [cue |-> {MaxFrame, StallFrame}, fixation |-> {MaxFrame},
                 response |-> {MaxFrame},
                 outcome |-> {MaxFrame, StallFrame}, iti |-> {1, MaxFrame}],
     keys |-> [cue |-> {}, fixation |-> {}, response |-> {}, outcome |-> {},
               iti |-> {}],
     rows |-> DriftRows,
     raws |-> {0},
     jitters |-> {0},
     presses |-> 0,
     n_trials |-> MaxTrials,
     count_draws |-> FALSE]

SpecDrift == Init /\ [][Next(EnvDrift)]_vars

(***************************************************************************)
(* scanner.py: the PulseCounter on its own, over a HardwareBackend whose   *)
(* counter only ever counts up.  A caller makes any sequence of            *)
(* wait_for_start, drain and wait_for_tr calls while the board counts.     *)
(***************************************************************************)
\* Pulses the board may count during one step of time.
Advances == {1, SCANNER_PULSE_RATE - 1, SCANNER_PULSE_RATE + 1}

InitPulse ==
    /\ pc = "pulse_idle"
    /\ fmri = TRUE
    /\ mcculw = TRUE
    /\ backend = "hardware"
    /\ run_log = <<>>
    /\ hw_count \in 0..1
    /\ pulse_last = hw_count
    /\ pulse_calls = <<>>
    /\ now = 0
    /\ keyBuffer = <<>>
    /\ kbClockReset = 0
    /\ timer_end = 0
    /\ phase_start = 0
    /\ trial_n = 0
    /\ row = NoRow
    /\ jitter_s = 0
    /\ intensity = 0
    /\ early_press = FALSE
    /\ hit = FALSE
    /\ rt_s = <<>>
    /\ target_shown = FALSE
    /\ target_removed = FALSE
    /\ clock_reset_scheduled = FALSE
    /\ reward_outcome = "$0"
    /\ total_earned = 0
    /\ nominal_time = 0
    /\ tr_within = 0
    /\ scan_phases = <<>>
    /\ iti_done = 0
    /\ time_onset = 0
    /\ pulse_ct = 0
    /\ responses = [q \in {"high", "medium", "low"} |-> <<>>]
    /\ behavioral = <<>>
    /\ scan_log = <<>>
    /\ sequence = <<>>
    /\ n_presses = 0
    /\ pressed_in = {}
    /\ consumed = <<>>
    /\ iti_log = <<>>
    /\ draws = [q \in {"high", "medium", "low"} |-> <<>>]
    /\ target_draws = [n |-> 0, frames |-> {}]
    /\ prev_jitters = <<>>
    /\ files = [behavioral |-> CsvWriter(BEHAVIORAL_COLUMNS),
                scan_log |-> CsvWriter(SCAN_LOG_COLUMNS)]
    /\ emitted = <<>>
    /\ seq_file = [exists |-> TRUE,
                   columns |-> {"cue_type", "target_accuracy", "n_iti"}]

\* What no PulseCounter method and no pulse touches.
taskVars ==
    <<keyBuffer, kbClockReset, timer_end, phase_start, trial_n, row,
      jitter_s, intensity, early_press, hit, rt_s, target_shown, target_removed,
      clock_reset_scheduled, reward_outcome, total_earned, nominal_time,
      tr_within, scan_phases, iti_done, time_onset, pulse_ct, responses,
      behavioral, scan_log, sequence, n_presses, pressed_in, consumed, iti_log,
      draws, target_draws,
      prev_jitters,
      files,
      emitted,
      seq_file,
      driverVars>>

\* Time passes and the board counts k more pulses.
HwPulse ==
    /\ now < MaxPulseSteps
    /\ now' = now + 1
    /\ \E k \in Advances : hw_count' = hw_count + k
    /\ UNCHANGED <<pc, pulse_last, pulse_calls, taskVars>>

\* Faulty variant: drain returns the count it read.
drain_absolute(curr) == curr

\* drain(), lines 112-113, on the count curr it reads: its delta.
drain_delta(curr) == Max(0, curr - pulse_last)

CallDrain ==
    /\ pc = "pulse_idle"
    /\ Len(pulse_calls) < MaxCalls
    /\ pulse_calls' = Append(pulse_calls,
           PulseCall("drain", hw_count, drain_delta(hw_count), 0))
    /\ pulse_last' = hw_count
    /\ UNCHANGED <<pc, now, driverVars, hw_count, taskVars>>

CallWaitForStart ==
    /\ pc = "pulse_idle"
    /\ Len(pulse_calls) < MaxCalls
    /\ pc' = "wait_for_start"
    /\ UNCHANGED <<now, driverVars, hw_count, pulse_last, pulse_calls, taskVars>>

\* Faulty variant: wait_for_start does not wait.
WaitForStartNoWait(curr) == TRUE

\* line 106: the poll that ends wait_for_start's loop
WaitForStartDone(curr) == curr # pulse_last

WaitForStartPoll ==
    /\ pc = "wait_for_start"
    /\ WaitForStartDone(hw_count)
    /\ pc' = "wait_for_start_read"
    /\ UNCHANGED <<now, driverVars, hw_count, pulse_last, pulse_calls, taskVars>>

\* line 108: the count is read again and cached
WaitForStartReturn ==
    /\ pc = "wait_for_start_read"
    /\ pulse_calls' = Append(pulse_calls,
           PulseCall("wait_for_start", hw_count, 0, 0))
    /\ pulse_last' = hw_count
    /\ pc' = "pulse_idle"
    /\ UNCHANGED <<now, driverVars, hw_count, taskVars>>

CallWaitForTr ==
    /\ pc = "pulse_idle"
    /\ Len(pulse_calls) < MaxCalls
    /\ pc' = "wait_for_tr"
    /\ UNCHANGED <<now, driverVars, hw_count, pulse_last, pulse_calls, taskVars>>

\* Faulty variant: wait_for_tr returns on the first new pulse.
WaitForTrDoneEarly(curr) == curr > pulse_last

\* lines 120-121: the poll that ends wait_for_tr's loop
WaitForTrDone(curr) == ~(curr < pulse_last + SCANNER_PULSE_RATE)

WaitForTrPoll ==
    /\ pc = "wait_for_tr"
    /\ WaitForTrDone(hw_count)
    /\ pc' = "wait_for_tr_read"
    /\ UNCHANGED <<now, driverVars, hw_count, pulse_last, pulse_calls, taskVars>>

\* lines 123-126: the count is read again, the delta returned
WaitForTrReturn ==
    /\ pc = "wait_for_tr_read"
    /\ pulse_calls' = Append(pulse_calls,
           PulseCall("wait_for_tr", hw_count, hw_count - pulse_last, 0))
    /\ pulse_last' = hw_count
    /\ pc' = "pulse_idle"
    /\ UNCHANGED <<now, driverVars, hw_count, taskVars>>

NextPulse ==
    \/ HwPulse
    \/ CallDrain
    \/ CallWaitForStart
    \/ WaitForStartPoll
    \/ WaitForStartReturn
    \/ CallWaitForTr
    \/ WaitForTrPoll
    \/ WaitForTrReturn

SpecPulse == InitPulse /\ [][NextPulse]_vars

(***************************************************************************)
(* Properties.                                                             *)
(***************************************************************************)
\* A trial has just been completed: its record is the last row of the
\* behavioral log and the history variables are still those of that trial.
TrialDone == pc \in {"run", "closing"} /\ behavioral # <<>>
Rec == Last(behavioral)
Records == {behavioral[k] : k \in 1..Len(behavioral)}

\* C1: in every trial record, early_press = 1 implies hit = 0.
C1_EarlyPressNeverHit ==
    \A rec \in Records : rec.early_press = 1 => rec.hit = 0

\* C1 witness: a trial with an early press in which a response key was also
\* pressed in the response phase, once the target was shown.
C1_Witness ==
    TrialDone /\ Rec.early_press = 1 /\ "response" \in pressed_in

\* C2: with no early press, when the first response consumed is consumed after
\* the target was removed, the trial has hit = 0 and that key's timestamp is
\* the rt returned and recorded.
C2_LatePressKeepsItsRt ==
    (TrialDone /\ Rec.early_press = 0 /\ consumed # <<>> /\ ~consumed[1].visible)
        => (Rec.hit = 0 /\ Rec.rt_ms = <<consumed[1].rt>>)

\* C3: in every trial record, an rt beyond the target duration implies hit = 0
\* (the rt being present).
C3_RtBeyondTargetNeverHit ==
    \A rec \in Records :
        (rec.rt_ms # <<>> /\ rec.rt_ms[1] > rec.target_dur_ms) => rec.hit = 0

\* C4: a response consumed while the target is visible makes hit true with
\* rt_s its timestamp, and it is the last response the trial consumes: hit and
\* rt_s keep these values to the end of the trial and into the record.
C4_VisiblePressIsHit ==
    \A i \in 1..Len(consumed) :
        consumed[i].visible =>
            /\ hit
            /\ rt_s = <<consumed[i].rt>>
            /\ i = Len(consumed)
            /\ TrialDone => (Rec.hit = 1 /\ Rec.rt_ms = <<consumed[i].rt>>)

\* C4 witness: after a hit, another response key has been pressed in the same
\* response phase.
C4_Witness ==
    /\ pc = "response"
    /\ hit
    /\ consumed # <<>>
    /\ GetKeys(keyBuffer, EXP_KEYS) # <<>>

\* C5: a response key pressed in the response phase before the target appears
\* makes the trial an early press: early_press = 1, hit = 0, rt empty.
C5_PreTargetPressIsEarly ==
    (TrialDone /\ "response_pre" \in pressed_in)
        => (Rec.early_press = 1 /\ Rec.hit = 0 /\ Rec.rt_ms = <<>>)

C7_PreOnsetKeyNeverConsumed ==
    target_shown =>
        /\ kbClockReset > phase_start + jitter_s
        /\ kbClockReset <= phase_start + jitter_s + 2 * MaxFrame - 1
        /\ \A i \in 1..Len(keyBuffer) : keyBuffer[i].ts > kbClockReset
        /\ \A i \in 1..Len(consumed) : consumed[i].rt > 0
        /\ hit => rt_s[1] > 0

\* C7 witness: a response key was buffered before the target appeared, and a
\* later one was scored as a hit.
C7_Witness ==
    "response_pre" \in pressed_in /\ hit


\* The reward table: label and delta by cue kind and hit (0/1).
RewardLabel(cue, h) ==
    CASE cue = "gain" /\ h = 1 -> "+$5"
      [] cue = "gain" /\ h = 0 -> "$0"
      [] cue = "loss" /\ h = 1 -> "$0"
      [] cue = "loss" /\ h = 0 -> "-$5"
      [] cue = "neutral" -> "$0"

RewardDelta(cue, h) ==
    CASE cue = "gain" /\ h = 1 -> 5
      [] cue = "gain" /\ h = 0 -> 0
      [] cue = "loss" /\ h = 1 -> 0
      [] cue = "loss" /\ h = 0 -> -5
      [] cue = "neutral" -> 0

\* total_earned as the trial in progress received it: the last record's.
PriorTotal ==
    LET done == IF pc \in {"run", "closing"} THEN Len(behavioral) - 1
                ELSE Len(behavioral)
    IN  IF done <= 0 THEN 0 ELSE behavioral[done].total_earned

\* C8: from the outcome step to the end of the trial, reward_outcome and
\* total_earned are the label and the prior total plus the delta of the reward
\* table for the trial's cue kind and hit.
C8_OutcomeFollowsRewardTable ==
    pc \in {"outcome", "iti_loop", "iti"} =>
        /\ reward_outcome = RewardLabel(row.cue_type, int(hit))
        /\ total_earned = PriorTotal + RewardDelta(row.cue_type, int(hit))

\* C8 witness: a missed loss trial entered with a total of 5.
C8_Witness ==
    /\ pc = "outcome"
    /\ PriorTotal = 5
    /\ row.cue_type = "loss"
    /\ ~hit
    /\ reward_outcome = "-$5"
    /\ total_earned = 0

RECURSIVE SumDeltas(_)
SumDeltas(k) ==
    IF k = 0 THEN 0
    ELSE SumDeltas(k - 1) + RewardDelta(behavioral[k].cue_type, behavioral[k].hit)

\* C9: total_earned in the record of trial k is the sum of the reward deltas
\* of trials 1..k, and between the end of a trial and the outcome step of the
\* next the running total is the one last recorded (0 before trial 1).
C9_TotalIsSumOfDeltas ==
    /\ \A k \in 1..Len(behavioral) : behavioral[k].total_earned = SumDeltas(k)
    /\ pc \in {"run", "closing"} => total_earned = SumDeltas(Len(behavioral))
    /\ pc \in {"cue", "fixation", "response"} => total_earned = PriorTotal

\* C9 witness: two trials with non-zero deltas, a gain hit then a loss miss.
C9_Witness ==
    /\ Len(behavioral) >= 2
    /\ behavioral[1].total_earned = 5
    /\ behavioral[2].reward_outcome = "-$5"
    /\ behavioral[2].total_earned = 0

\* The phase records of trial n in the scan log.
PhaseRows(n) == {i \in 1..Len(scan_log) : scan_log[i].trial_n = n}

\* C10: in every trial record total_trs is 4 + n_iti of the trial's row, and
\* is the number of phase records emitted for the trial.
C10_TotalTrs ==
    \A rec \in Records :
        /\ rec.total_trs = 4 + sequence[rec.trial_n].n_iti
        /\ Cardinality(PhaseRows(rec.trial_n)) = rec.total_trs

\* C10 witness: a trial with more than one ITI.
C10_Witness ==
    \E rec \in Records :
        sequence[rec.trial_n].n_iti > 1 /\ rec.total_trs = 4 + sequence[rec.trial_n].n_iti

\* The phase the i-th record of a trial is to carry.
PhaseName(i) ==
    CASE i = 1 -> "cue" [] i = 2 -> "fixation" [] i = 3 -> "response"
      [] i = 4 -> "outcome" [] OTHER -> "post-outcome-fixation"

\* The scan-log rows of trial n, in the order they were appended.
TrialRows(n) == SelectSeq(scan_log, LAMBDA r : r.trial_n = n)

\* C11: the phase records of a trial, while it runs and in the scan log, are
\* cue, fixation, response, outcome, then post-outcome-fixation, the i-th
\* with tr_n = i; a completed trial has 4 + n_iti of them.
C11_PhaseOrder ==
    /\ \A i \in 1..Len(scan_phases) :
           /\ scan_phases[i].phase = PhaseName(i)
           /\ scan_phases[i].tr_n = i
           /\ scan_phases[i].trial_n = trial_n
    /\ \A rec \in Records :
           /\ Len(TrialRows(rec.trial_n)) = 4 + sequence[rec.trial_n].n_iti
           /\ \A i \in 1..Len(TrialRows(rec.trial_n)) :
                  /\ TrialRows(rec.trial_n)[i].phase = PhaseName(i)
                  /\ TrialRows(rec.trial_n)[i].tr_n = i

\* C11 witness: the log of a completed trial with several ITIs ends with the
\* record of its last ITI.
C11_Witness ==
    /\ TrialDone
    /\ sequence[Rec.trial_n].n_iti = MaxIti
    /\ MaxIti > 1
    /\ Last(scan_log).phase = "post-outcome-fixation"
    /\ Last(scan_log).tr_n = 4 + MaxIti

\* Every phase record emitted so far in the run, in emission order: the scan
\* log, then the records of the trial in progress.
PhaseRecords ==
    scan_log \o (IF pc \in {"run", "closing"} THEN <<>> ELSE scan_phases)

\* C12: pulse_ct never decreases along the phase records of a run, the step
\* from the last record of a trial to the cue record of the next included.
C12_PulseCtMonotone ==
    LET pr == PhaseRecords IN
        \A i, j \in 1..Len(pr) : i <= j => pr[i].pulse_ct <= pr[j].pulse_ct

\* C12 witness: the cue record of trial 2 follows the last record of trial 1
\* with a larger pulse_ct.
C12_Witness ==
    \E i \in 1..(Len(PhaseRecords) - 1) :
        /\ PhaseRecords[i].trial_n = 1
        /\ PhaseRecords[i + 1].trial_n = 2
        /\ PhaseRecords[i + 1].phase = "cue"
        /\ PhaseRecords[i].pulse_ct < PhaseRecords[i + 1].pulse_ct

\* The pulse-counter calls of the trial by operation.
CallsOf(op) == {i \in 1..Len(pulse_calls) : pulse_calls[i].op = op}

\* C13: in every trial the i-th pulse-counter call is made when i - 1 phase
\* records exist and is followed by the i-th record; the first call is a
\* drain and every other one a wait_for_tr, so that a completed trial has
\* made one drain and 3 + n_iti wait_for_tr calls.
C13_PulseCounterUse ==
    /\ Len(pulse_calls) = Len(scan_phases)
    /\ \A i \in 1..Len(pulse_calls) :
           /\ pulse_calls[i].n_phases = i - 1
           /\ pulse_calls[i].op = (IF i = 1 THEN "drain" ELSE "wait_for_tr")
    /\ TrialDone =>
           /\ Cardinality(CallsOf("drain")) = 1
           /\ Cardinality(CallsOf("wait_for_tr")) = 3 + sequence[Rec.trial_n].n_iti

\* C13 witness: a completed trial with several ITIs: one drain, then
\* 3 + MaxIti waits.
C13_Witness ==
    /\ TrialDone
    /\ MaxIti > 1
    /\ CallsOf("drain") = {1}
    /\ CallsOf("wait_for_tr") = 2..(4 + MaxIti)

\* The cache as call i left it: the count that call read is the cache the
\* next call finds, and the cache now if i is the last call returned.
CacheAfter(i) ==
    IF i < Len(pulse_calls) THEN pulse_calls[i + 1].cache ELSE pulse_last

\* C14: wait_for_tr leaves its loop only with the count at cache + pulse_rate
\* or more; the call caches the count it read and returns that count minus
\* the old cache, at least pulse_rate.
C14_WaitForTrDelta ==
    /\ pc = "wait_for_tr_read" => hw_count >= pulse_last + SCANNER_PULSE_RATE
    /\ \A i \in 1..Len(pulse_calls) :
           pulse_calls[i].op = "wait_for_tr" =>
               /\ pulse_calls[i].read >= pulse_calls[i].cache + SCANNER_PULSE_RATE
               /\ pulse_calls[i].delta = pulse_calls[i].read - pulse_calls[i].cache
               /\ pulse_calls[i].delta >= SCANNER_PULSE_RATE
               /\ CacheAfter(i) = pulse_calls[i].read

\* C14 witness: a wait_for_tr that returned with a surplus, more than twice
\* the pulse rate.
C14_Witness ==
    /\ pc = "pulse_idle"
    /\ \E i \in 1..Len(pulse_calls) :
           /\ pulse_calls[i].op = "wait_for_tr"
           /\ pulse_calls[i].delta > 2 * SCANNER_PULSE_RATE

\* C15: drain returns the count read minus the cache, or 0 if that is not
\* positive, never a negative number; it caches the count read; and it can
\* always be taken to its end by a caller that is not inside another call.
C15_DrainDelta ==
    /\ \A i \in 1..Len(pulse_calls) :
           pulse_calls[i].op = "drain" =>
               /\ pulse_calls[i].delta >= 0
               /\ pulse_calls[i].delta =
                      (IF pulse_calls[i].read > pulse_calls[i].cache
                       THEN pulse_calls[i].read - pulse_calls[i].cache ELSE 0)
               /\ CacheAfter(i) = pulse_calls[i].read
    /\ (pc = "pulse_idle" /\ Len(pulse_calls) < MaxCalls) => ENABLED CallDrain

\* C15 witness: a drain that returned pulses, and a later one that found no
\* new pulse and returned 0.
C15_Witness ==
    \E i, j \in 1..Len(pulse_calls) :
        /\ i < j
        /\ pulse_calls[i].op = "drain" /\ pulse_calls[i].delta > 0
        /\ pulse_calls[j].op = "drain" /\ pulse_calls[j].delta = 0

\* C16: no step lowers the cache, and the step on which wait_for_start or
\* wait_for_tr returns raises it.
C16_CacheMonotone ==
    [][/\ pulse_last' >= pulse_last
       /\ (pc \in {"wait_for_start_read", "wait_for_tr_read"} /\ pc' = "pulse_idle")
              => pulse_last' > pulse_last]_vars

\* C16 witness: the three methods have been called in turn, the drain on an
\* unchanged count.
C16_Witness ==
    /\ Len(pulse_calls) = 3
    /\ pulse_calls[1].op = "wait_for_start"
    /\ pulse_calls[2].op = "drain" /\ pulse_calls[2].read = pulse_calls[2].cache
    /\ pulse_calls[3].op = "wait_for_tr"

\* The cache at scan start: the PulseCounter is built before the emulated
\* backend is started, when read() returns 0, and is not touched until the
\* first trial.
ScanStartCache == 0

RECURSIVE SumCallDeltas(_)
SumCallDeltas(k) ==
    IF k = 0 THEN 0 ELSE SumCallDeltas(k - 1) + pulse_calls[k].delta

\* C17: the pulse_ct of every phase record is the count cached at its
\* boundary less the cache at scan start, as is the run's pulse_ct at all
\* times; the deltas of a trial's calls sum to the pulse_ct of its last
\* record less the pulse_ct the trial was handed; and the cue drain counts
\* from the cache the previous boundary left.
C17_PulseCtCumulative ==
    /\ pulse_ct = pulse_last - ScanStartCache
    /\ \A i \in 1..Len(scan_phases) :
           scan_phases[i].pulse_ct = pulse_calls[i].read - ScanStartCache
    /\ LET pr == PhaseRecords IN
           \A i \in 1..Len(pr) :
               \A j \in 1..Len(pr) :
                   (j = i + 1 /\ pr[j].phase = "cue") =>
                       pr[j].pulse_ct - pr[i].pulse_ct
                           = Read(pr[j].phase_global_time)
                             - Read(pr[i].phase_global_time)
    /\ scan_phases # <<>> =>
           SumCallDeltas(Len(pulse_calls))
               = scan_phases[Len(scan_phases)].pulse_ct - pulse_calls[1].ct

\* C17 witness: the second trial's cue drain has counted the pulses of the
\* first trial's last ITI.
C17_Witness ==
    /\ pc = "cue"
    /\ trial_n = 2
    /\ pulse_calls[1].op = "drain"
    /\ pulse_calls[1].delta > 0
    /\ pulse_calls[1].ct = scan_log[Len(scan_log)].pulse_ct

\* The ITI iterations of the trial that have run to their end.
ItiEnded == {i \in 1..Len(iti_log) : i < Len(iti_log) \/ pc # "iti"}

\* An ITI iteration is under way or the trial's ITI loop has been entered.
InItiLoop == pc \in {"iti", "iti_loop"} /\ iti_log # <<>>

\* C18: every ITI's fixation duration is 2.0 s less the drift read against
\* the nominal time before its advance, nominal_time is then 2.0 s further,
\* and the timer runs for that duration; an ITI entered with a drift of 0 to
\* 2.0 s is shown for that duration and less than a vsync more, which leaves
\* the trial's end less than a vsync after its scheduled end.
C18_ItiDriftCorrected ==
    /\ \A i \in 1..Len(iti_log) :
           iti_log[i].dur = STUDY_TIMES_S.iti - iti_log[i].drift
    /\ InItiLoop =>
           nominal_time = iti_log[Len(iti_log)].start - iti_log[Len(iti_log)].drift
                              + STUDY_TIMES_S.iti
    /\ pc = "iti" =>
           timer_end = iti_log[Len(iti_log)].start + iti_log[Len(iti_log)].dur
    /\ \A i \in ItiEnded :
           (iti_log[i].drift >= 0 /\ iti_log[i].drift <= STUDY_TIMES_S.iti) =>
               /\ iti_log[i].end - iti_log[i].start >= STUDY_TIMES_S.iti - iti_log[i].drift
               /\ iti_log[i].end - iti_log[i].start
                      < STUDY_TIMES_S.iti - iti_log[i].drift + MaxFrame
    /\ (TrialDone /\ iti_log # <<>>
            /\ iti_log[Len(iti_log)].drift <= STUDY_TIMES_S.iti) =>
           (Rec.timing_drift_ms >= 0 /\ Rec.timing_drift_ms < MaxFrame)

\* C18 witness: a trial whose ITI was entered with a drift between 0 and
\* 2.0 s, was shown for exactly 2.0 s less that drift, and ended on schedule.
C18_Witness ==
    /\ TrialDone
    /\ iti_log # <<>>
    /\ iti_log[Len(iti_log)].drift > 0
    /\ iti_log[Len(iti_log)].drift < STUDY_TIMES_S.iti
    /\ iti_log[Len(iti_log)].end - iti_log[Len(iti_log)].start
           = STUDY_TIMES_S.iti - iti_log[Len(iti_log)].drift
    /\ Rec.timing_drift_ms = 0

\* C19: an ITI whose drift has reached 2.0 s (computed duration <= 0) is
\* skipped: no timer runs for it and no frame is drawn, it ends when it
\* starts; no ITI has a negative duration; its phase record is emitted and
\* nominal_time is advanced by 2.0 s all the same.
C19_ItiSkipped ==
    /\ \A i \in 1..Len(iti_log) :
           /\ iti_log[i].end >= iti_log[i].start
           /\ iti_log[i].drift >= STUDY_TIMES_S.iti =>
                  /\ iti_log[i].flips = 0
                  /\ iti_log[i].end = iti_log[i].start
                  /\ i \in ItiEnded
    /\ (pc \notin {"run", "closing"} \/ TrialDone) =>
           \A i \in 1..Len(iti_log) :
               /\ Len(scan_phases) >= 4 + i
               /\ scan_phases[4 + i].phase = "post-outcome-fixation"
               /\ scan_phases[4 + i].phase_global_time = iti_log[i].start
    /\ InItiLoop =>
           nominal_time - STUDY_TIMES_S.iti
               = iti_log[Len(iti_log)].start - iti_log[Len(iti_log)].drift

\* C19 witness: a trial has ended on a skipped ITI, entered with a drift of
\* more than 2.0 s.
C19_Witness ==
    /\ TrialDone
    /\ iti_log # <<>>
    /\ iti_log[Len(iti_log)].drift > STUDY_TIMES_S.iti
    /\ iti_log[Len(iti_log)].flips = 0
    /\ Len(scan_phases) = 4 + Len(iti_log)

\* The drift in excess of 2.0 s that the trial's last ITI was entered with.
ExcessDrift ==
    IF iti_log[Len(iti_log)].drift > STUDY_TIMES_S.iti
    THEN iti_log[Len(iti_log)].drift - STUDY_TIMES_S.iti ELSE 0

\* C20: a trial with at least one ITI ends with |actual - nominal| at most a
\* vsync interval plus that excess.
C20_EndDriftBounded ==
    (TrialDone /\ sequence[Rec.trial_n].n_iti >= 1) =>
        /\ Rec.timing_drift_ms <= MaxFrame + ExcessDrift
        /\ 0 - Rec.timing_drift_ms <= MaxFrame + ExcessDrift

\* C20 witness: the last trial of a run, with ITIs, ended within a vsync of
\* its schedule after a trial without ITI had ended further off than that.
C20_Witness ==
    /\ pc = "closing"
    /\ Len(behavioral) >= 2
    /\ sequence[Rec.trial_n].n_iti >= 1
    /\ behavioral[Len(behavioral) - 1].timing_drift_ms > MaxFrame
    /\ Rec.timing_drift_ms < MaxFrame
    /\ ExcessDrift = 0

(***************************************************************************)
(* The response phase without keys, over every jitter, intensity and flip  *)
(* length, with the draw_target calls counted.                             *)
(***************************************************************************)
EnvJitter ==
    [frames |-> [cue |-> {MaxFrame}, fixation |-> {MaxFrame}, response |-> AnyFrame,
                 outcome |-> {MaxFrame}, iti |-> {MaxFrame}],
     keys |-> [cue |-> {}, fixation |-> {}, response |-> {}, outcome |-> {},
               iti |-> {}],
     rows |-> {r \in Rows : r.target_accuracy = 80 /\ r.n_iti = 1},
     raws |-> Raws,
     jitters |-> Jitters,
     presses |-> 0,
     n_trials |-> 1,
     count_draws |-> TRUE]

SpecJitter == Init /\ [][Next(EnvJitter)]_vars

(***************************************************************************)
(* C21: whatever the staircase proposes, the intensity a trial runs with   *)
(* lies in 0 .. MAX_TARGET_DUR_S - MIN_TARGET_DUR_S, and the target        *)
(* duration the trial records lies in MIN_TARGET_DUR_S .. MAX_TARGET_DUR_S.*)
(***************************************************************************)
C21_IntensityClipped ==
    /\ (pc # "run" /\ pc # "closing") =>
           intensity \in 0..(MAX_TARGET_DUR_S - MIN_TARGET_DUR_S)
    /\ \A rec \in Records :
           /\ rec.quest_intensity \in 0..(MAX_TARGET_DUR_S - MIN_TARGET_DUR_S)
           /\ rec.target_dur_ms \in MIN_TARGET_DUR_S..MAX_TARGET_DUR_S

\* A trial was recorded whose staircase had proposed more than the largest
\* intensity, and it ran with the largest.
C21_Witness ==
    /\ TrialDone
    /\ Last(draws[Rec.quest]) > MAX_TARGET_DUR_S - MIN_TARGET_DUR_S
    /\ Rec.quest_intensity = MAX_TARGET_DUR_S - MIN_TARGET_DUR_S
    /\ Rec.target_dur_ms = MAX_TARGET_DUR_S

(***************************************************************************)
(* run_response's loop (lines 78-93) replayed for a display that flips     *)
(* every f ticks: the number of iterations that call draw_target, from     *)
(* phase time t on, for jitter j and target duration dur.                  *)
(***************************************************************************)
RECURSIVE draw_target_calls(_, _, _, _, _, _)
draw_target_calls(t, shown, removed, j, dur, f) ==
    IF ~(t < STUDY_TIMES_S.response) THEN 0
    ELSE LET shown1 == shown \/ t >= j
             removed1 == removed \/ (shown1 /\ (t - j) >= dur)
         IN  int(shown1 /\ ~removed1)
               + draw_target_calls(t + f, shown1, removed1, j, dur, f)

ResponseOver == trial_n >= 1 /\ pc \in {"outcome", "iti", "iti_loop", "run", "closing"}

(***************************************************************************)
(* C22: jitter invariance.  In a response phase whose flips all took the   *)
(* same time, the number of frames on which the target was drawn is what   *)
(* the loop gives for this jitter, and it differs by at most one frame     *)
(* from what it gives, at the same intensity and frame period, for any     *)
(* other jitter: the jitter delays the target and does not shorten it.     *)
(***************************************************************************)
C22_JitterInvariance ==
    (ResponseOver /\ Cardinality(target_draws.frames) = 1) =>
        \A f \in target_draws.frames :
            LET dur == MIN_TARGET_DUR_S + intensity
                calls(j) == draw_target_calls(0, FALSE, FALSE, j, dur, f)
            IN  /\ target_draws.n = calls(jitter_s)
                /\ \A j \in Jitters :
                       /\ target_draws.n - calls(j) <= 1
                       /\ calls(j) - target_draws.n <= 1

\* A jittered target was drawn on as many frames as an unjittered one, over
\* several frames, and its onset was delayed.
C22_Witness ==
    /\ ResponseOver
    /\ jitter_s > 0
    /\ \E f \in AnyFrame :
           /\ target_draws.frames = {f}
           /\ target_draws.n > 1
           /\ target_draws.n =
                  draw_target_calls(0, FALSE, FALSE, 0, MIN_TARGET_DUR_S + intensity, f)

(***************************************************************************)
(* The program is started again for the same subject and the same sequence *)
(* file once a run is over: run() from its start to the head of the trial  *)
(* loop.  Nothing in it seeds the random module, whose generator Python    *)
(* seeds from the operating system when the process starts, so the jitters *)
(* run_trial draws are again any of the values random.uniform can return.  *)
(***************************************************************************)
Rerun ==
    /\ pc = "closing"
    /\ prev_jitters = <<>>
    /\ prev_jitters' = [k \in 1..Len(behavioral) |-> behavioral[k].jitter_ms]
    /\ pc' = "run"
    /\ now' = INITIAL_FIX_DUR_S
    /\ keyBuffer' = <<>>
    /\ kbClockReset' = 0
    /\ timer_end' = 0
    /\ phase_start' = 0
    /\ trial_n' = 0
    /\ row' = NoRow
    /\ jitter_s' = 0
    /\ intensity' = 0
    /\ early_press' = FALSE
    /\ hit' = FALSE
    /\ rt_s' = <<>>
    /\ target_shown' = FALSE
    /\ target_removed' = FALSE
    /\ clock_reset_scheduled' = FALSE
    /\ reward_outcome' = "$0"
    /\ total_earned' = 0
    /\ nominal_time' = INITIAL_FIX_DUR_S
    /\ tr_within' = 0
    /\ scan_phases' = <<>>
    /\ iti_done' = 0
    /\ time_onset' = 0
    /\ pulse_last' = 0
    /\ pulse_ct' = 0
    /\ responses' = [q \in {"high", "medium", "low"} |-> <<>>]
    /\ behavioral' = <<>>
    /\ scan_log' = <<>>
    /\ sequence' = <<>>
    /\ n_presses' = 0
    /\ pressed_in' = {}
    /\ consumed' = <<>>
    /\ pulse_calls' = <<>>
    /\ iti_log' = <<>>
    /\ draws' = [q \in {"high", "medium", "low"} |-> <<>>]
    /\ target_draws' = [n |-> 0, frames |-> {}]
    /\ files' = [behavioral |-> CsvWriter(BEHAVIORAL_COLUMNS),
                 scan_log |-> CsvWriter(SCAN_LOG_COLUMNS)]
    /\ emitted' = <<>>
    /\ seq_file' = seq_file
    /\ UNCHANGED driverVars
    /\ hw_count' = 0

\* Two runs of MaxTrials trials over one row, without keys.
EnvRerun ==
    [frames |-> [cue |-> {MaxFrame}, fixation |-> {MaxFrame}, response |-> {MaxFrame},
                 outcome |-> {MaxFrame}, iti |-> {MaxFrame}],
     keys |-> [cue |-> {}, fixation |-> {}, response |-> {}, outcome |-> {},
               iti |-> {}],
     rows |-> {r \in Rows : r.cue_type = "neutral" /\ r.target_accuracy = 50
                              /\ r.n_iti = 1},
     raws |-> {0},
     jitters |-> Jitters,
     presses |-> 0,
     n_trials |-> MaxTrials,
     count_draws |-> FALSE]

SpecRerun == Init /\ [][Next(EnvRerun) \/ Rerun]_vars

(***************************************************************************)
(* C23: a second run of the same subject over the same sequence draws the  *)
(* jitters of the first, trial by trial.                                   *)
(***************************************************************************)
C23_JittersReproduced ==
    prev_jitters # <<>> =>
        \A k \in 1..Len(behavioral) : behavioral[k].jitter_ms = prev_jitters[k]

(***************************************************************************)
(* Reading a file back while its writer is still open: csv.DictReader over *)
(* the lines on the disk, the first being the header.                      *)
(***************************************************************************)
DictReader(disk) ==
    [k \in 1..(Len(disk) - 1) |->
        [c \in {disk[1][i] : i \in 1..Len(disk[1])} |->
            disk[k + 1][CHOOSE i \in 1..Len(disk[1]) : disk[1][i] = c]]]

ValidCsv(disk) ==
    /\ disk # <<>>
    /\ \A k \in 1..Len(disk) : Len(disk[k]) = Len(disk[1])

Columns(w) == IF w = "behavioral" THEN BEHAVIORAL_COLUMNS ELSE SCAN_LOG_COLUMNS
Appended(w) == IF w = "behavioral" THEN behavioral ELSE scan_log

(***************************************************************************)
(* C24: each writer wrote its header when it was constructed; once a row   *)
(* has been appended nothing is left in the buffer, and the file on disk,  *)
(* read back without closing the writer, is a valid CSV of the header      *)
(* followed by exactly the appended rows in the order of their appends.    *)
(***************************************************************************)
C24_AppendDurable ==
    \A w \in {"behavioral", "scan_log"} :
        LET f == files[w]
            rows == Appended(w)
        IN  /\ (f.disk \o f.buf) # <<>>
            /\ (f.disk \o f.buf)[1] = Columns(w)
            /\ rows # <<>> =>
                   /\ f.buf = <<>>
                   /\ ValidCsv(f.disk)
                   /\ f.disk[1] = Columns(w)
                   /\ DictReader(f.disk) =
                          [k \in 1..Len(rows) |->
                              [c \in {Columns(w)[i] : i \in 1..Len(Columns(w))} |->
                                  cell(rows[k], c)]]

\* Two trials have been appended and both files hold them on disk, the
\* second trial's row after the first's.
C24_Witness ==
    /\ Len(behavioral) = 2
    /\ Len(files.behavioral.disk) = 3
    /\ DictReader(files.behavioral.disk)[1]["trial_n"] = "1"
    /\ DictReader(files.behavioral.disk)[2]["trial_n"] = "2"
    /\ Len(files.scan_log.disk) = Len(scan_log) + 1
    /\ Len(scan_log) >= 10

(***************************************************************************)
(* Failures.  run() and run_trial catch nothing: an exception raised by    *)
(* win.flip, by the event backend or by a writer while a trial is running  *)
(* leaves run() at once and ends the process.                              *)
(***************************************************************************)
InTrial == {"cue", "fixation", "response", "outcome", "iti", "iti_loop"}

Raise(E) ==
    /\ pc \in InTrial
    /\ pc' = "raised"
    /\ UNCHANGED <<now, keyBuffer, kbClockReset, timer_end, phase_start, trial_n,
                   row, trialLocals, total_earned, nominal_time, tr_within,
                   scan_phases, iti_done, time_onset, pulse_last, pulse_ct,
                   responses, behavioral, scan_log, sequence, n_presses,
                   pressed_in, consumed, pulse_calls, iti_log, draws,
                   target_draws, prev_jitters, files, emitted, seq_file,
                   driverVars, hw_count>>

\* __main__.py lines 218-220 when scan_log_writer.append raises on the
\* (n+1)-th phase of the trial: the trial's row and n phase rows are written.
RecordRaises(E) ==
    /\ pc = "iti_loop"
    /\ iti_done >= row.n_iti
    /\ pulse_ct' = Last(scan_phases).pulse_ct
    /\ \E n \in 0..(Len(scan_phases) - 1) :
        LET written == SubSeq(scan_phases, 1, n)
        IN  /\ behavioral' = Append(behavioral, TrialRecord)
            /\ scan_log' = scan_log \o written
            /\ files' = [behavioral |-> append(files.behavioral, TrialRecord,
                                               BEHAVIORAL_COLUMNS),
                         scan_log |-> append_each(files.scan_log, written,
                                                  SCAN_LOG_COLUMNS)]
            /\ emitted' = emitted \o <<[stream |-> "behavioral", trial_n |-> trial_n]>>
                             \o [i \in 1..n |->
                                    [stream |-> "scan_log", trial_n |-> written[i].trial_n]]
    /\ pc' = "raised"
    /\ UNCHANGED <<now, keyBuffer, kbClockReset, timer_end, phase_start, trial_n,
                   row, trialLocals, total_earned, nominal_time, tr_within,
                   scan_phases, iti_done, time_onset, pulse_last, responses,
                   sequence, n_presses, pressed_in, consumed, pulse_calls,
                   iti_log, draws, target_draws, prev_jitters, seq_file,
                   driverVars, hw_count>>

\* A run of MaxTrials trials over one row in which the operator may press a
\* quit key during any phase.
EnvQuit ==
    [frames |-> [cue |-> {MaxFrame}, fixation |-> {MaxFrame}, response |-> {1, MaxFrame},
                 outcome |-> {MaxFrame}, iti |-> {MaxFrame}, closing |-> {MaxFrame}],
     keys |-> [cue |-> QUIT_KEYS, fixation |-> QUIT_KEYS, response |-> QUIT_KEYS,
               outcome |-> QUIT_KEYS, iti |-> QUIT_KEYS, closing |-> QUIT_KEYS],
     rows |-> {r \in Rows : r.cue_type = "neutral" /\ r.target_accuracy = 50
                              /\ r.n_iti = 1},
     raws |-> {0},
     jitters |-> {0},
     presses |-> 1,
     n_trials |-> MaxTrials,
     count_draws |-> FALSE]

SpecFail ==
    Init /\ [][Next(EnvQuit) \/ Raise(EnvQuit) \/ RecordRaises(EnvQuit)]_vars

Terminated == pc \in {"quit", "raised"}

\* What the behavioral file holds once the process is gone.
BehavioralLog == DictReader(files.behavioral.disk \o files.behavioral.buf)

(***************************************************************************)
(* C25: when the run is terminated by a quit key or an exception while     *)
(* trial k is in progress, the behavioral log holds no row of trial k and  *)
(* holds the rows of trials 1..k-1, each as it was appended.               *)
(***************************************************************************)
C25_TrialInProgressNotWritten ==
    Terminated =>
        /\ \A i \in 1..Len(BehavioralLog) :
               BehavioralLog[i]["trial_n"] # ToString(trial_n)
        /\ Len(DictReader(files.behavioral.disk)) >= trial_n - 1
        /\ \A i \in 1..(trial_n - 1) :
               \A c \in 1..Len(BEHAVIORAL_COLUMNS) :
                   DictReader(files.behavioral.disk)[i][BEHAVIORAL_COLUMNS[c]]
                       = cell(behavioral[i], BEHAVIORAL_COLUMNS[c])

(***************************************************************************)
(* C26: in the order of the run driver's append calls, a trial's record is *)
(* appended after every phase record of that trial.                        *)
(***************************************************************************)
C26_TrialRecordAfterPhases ==
    \A i \in 1..Len(emitted) : \A j \in 1..Len(emitted) :
        (/\ emitted[i].stream = "behavioral"
         /\ emitted[j].stream = "scan_log"
         /\ emitted[i].trial_n = emitted[j].trial_n) => j < i

(***************************************************************************)
(* The state of the staircase of level q: its trial count, the intensities *)
(* it proposed and the responses it was given (its posterior is a function *)
(* of these).                                                              *)
(***************************************************************************)
StaircaseState(q) ==
    [n |-> Len(draws[q]), intensities |-> draws[q], data |-> responses[q]]

(***************************************************************************)
(* C27: the staircases are independent.  A step of the run changes the     *)
(* state of no staircase but that of the current trial's level, and from   *)
(* the next_intensity of a trial to its add_response (cue, fixation and    *)
(* response phases) it changes no staircase at all.                        *)
(***************************************************************************)
C27_StaircasesIndependent ==
    [][/\ \A q \in {"high", "medium", "low"} :
              q # QUEST_NAME(row'.target_accuracy) =>
                  StaircaseState(q)' = StaircaseState(q)
       /\ (pc \in {"cue", "fixation", "response"} /\ pc' # "outcome") =>
              \A q \in {"high", "medium", "low"} :
                  StaircaseState(q)' = StaircaseState(q)]_vars

\* The second trial's response has been added to its staircase while the
\* staircase of the first trial's other level keeps its one trial.
C27_Witness ==
    /\ trial_n = 2
    /\ pc = "outcome"
    /\ \E q \in {"high", "medium", "low"} :
           /\ q # QUEST_NAME(row.target_accuracy)
           /\ StaircaseState(q).n = 1
           /\ Len(StaircaseState(q).data) = 1
    /\ StaircaseState(QUEST_NAME(row.target_accuracy)).n = 1
    /\ Len(StaircaseState(QUEST_NAME(row.target_accuracy)).data) = 1

(***************************************************************************)
(* C28: the response phase lasts two seconds whatever the subject does.    *)
(* While its clock reads less than two seconds the loop goes on (or the    *)
(* operator quits); the phase is left, into the outcome boundary, only at  *)
(* a loop check whose clock reading is at least two seconds; and no loop   *)
(* check reads a frame or more past two seconds.                           *)
(***************************************************************************)
C28_ResponseCeiling ==
    [][pc = "response" =>
          /\ now - phase_start < TwoSec + MaxFrame
          /\ now - phase_start < TwoSec => pc' \in {"response", "quit"}
          /\ pc' = "outcome" => now - phase_start >= TwoSec]_vars

\* A hit scored within the first frames of the phase, and the phase still
\* lasted its two seconds.
C28_Witness ==
    /\ ResponseOver
    /\ hit
    /\ rt_s # <<>>
    /\ kbClockReset + rt_s[1] - phase_start <= 2 * MaxFrame
    /\ scan_phases[4].phase = "outcome"
    /\ scan_phases[4].phase_global_time - phase_start >= TwoSec

(***************************************************************************)
(* run() after the trial loop: the closing fixation, whose loop draws and  *)
(* flips and polls no key, and the end screen, which waits for the key "0" *)
(* and for no other.                                                       *)
(***************************************************************************)
ClosingStart(E) ==
    /\ pc = "closing"
    /\ timer_end' = now + CLOSING_FIX_DUR_S
    /\ run_log' = Append(run_log, "closing_fixation")
    /\ pc' = "closing_fixation"
    /\ UNCHANGED <<now, keyBuffer, kbClockReset, phase_start, trial_n, row,
                   trialLocals, total_earned, nominal_time, tr_within,
                   scan_phases, iti_done, time_onset, pulse_last, pulse_ct,
                   responses, behavioral, scan_log, sequence, n_presses,
                   pressed_in, consumed, pulse_calls, iti_log, draws,
                   target_draws, prev_jitters, files, emitted, seq_file,
                   fmri, mcculw, backend, hw_count>>

ClosingIter(E) ==
    /\ pc = "closing_fixation"
    /\ now < timer_end
    /\ \E d \in E.frames.closing : \E p \in Presses(now, d, E.keys.closing) :
        /\ n_presses + Len(p) <= E.presses
        /\ now' = now + d
        /\ keyBuffer' = keyBuffer \o p
        /\ n_presses' = n_presses + Len(p)
        /\ pressed_in' = pressed_in \cup QuitPressedIn(p)
    /\ UNCHANGED pc
    /\ UNCHANGED <<kbClockReset, timer_end, phase_start, trial_n, row,
                   trialLocals, total_earned, nominal_time, tr_within,
                   scan_phases, iti_done, time_onset, pulse_last, pulse_ct,
                   responses, behavioral, scan_log, sequence, consumed,
                   pulse_calls, iti_log, draws, target_draws, prev_jitters,
                   files, emitted, seq_file,
                   driverVars, hw_count>>

\* The end screen is up: waitKeys(keyList=["0"]) clears the buffer and blocks.
ClosingExit(E) ==
    /\ pc = "closing_fixation"
    /\ now >= timer_end
    /\ keyBuffer' = <<>>
    /\ run_log' = Append(run_log, "end_screen")
    /\ pc' = "end_screen"
    /\ UNCHANGED <<now, kbClockReset, timer_end, phase_start, trial_n, row,
                   trialLocals, total_earned, nominal_time, tr_within,
                   scan_phases, iti_done, time_onset, pulse_last, pulse_ct,
                   responses, behavioral, scan_log, sequence, n_presses,
                   pressed_in, consumed, pulse_calls, iti_log, draws,
                   target_draws, prev_jitters, files, emitted, seq_file,
                   fmri, mcculw, backend, hw_count>>

NextQuit ==
    \/ Next(EnvQuit)
    \/ ClosingStart(EnvQuit)
    \/ ClosingIter(EnvQuit)
    \/ ClosingExit(EnvQuit)

\* The process keeps running: a step that can be taken is taken.
SpecQuit == Init /\ [][NextQuit]_vars /\ WF_vars(NextQuit)

(***************************************************************************)
(* C29: a quit key pressed at any moment of the run, from the first trial  *)
(* to the end screen, leads to the termination of the process.             *)
(***************************************************************************)
C29_QuitKeyTerminates == ("quit" \in pressed_in) ~> (pc = "quit")

(***************************************************************************)
(* run() from the loading of the sequence file: session.load_sequence, the *)
(* construction of the writers, scan start and the initial fixation, and   *)
(* the head of the trial loop, which reads the row's n_iti.                *)
(***************************************************************************)
SequenceColumns == {"cue_type", "target_accuracy", "n_iti"}

SequenceFiles ==
    {[exists |-> FALSE, columns |-> {}]}
        \cup {[exists |-> TRUE, columns |-> c] : c \in SUBSET SequenceColumns}

\* no file has been opened yet
NoFile == [disk |-> <<>>, buf |-> <<>>]

InitStartup ==
    /\ pc = "load_sequence"
    /\ now = 0
    /\ keyBuffer = <<>>
    /\ kbClockReset = 0
    /\ timer_end = 0
    /\ phase_start = 0
    /\ trial_n = 0
    /\ row = NoRow
    /\ jitter_s = 0
    /\ intensity = 0
    /\ early_press = FALSE
    /\ hit = FALSE
    /\ rt_s = <<>>
    /\ target_shown = FALSE
    /\ target_removed = FALSE
    /\ clock_reset_scheduled = FALSE
    /\ reward_outcome = "$0"
    /\ total_earned = 0
    /\ nominal_time = 0
    /\ tr_within = 0
    /\ scan_phases = <<>>
    /\ iti_done = 0
    /\ time_onset = 0
    /\ pulse_last = 0
    /\ pulse_ct = 0
    /\ responses = [q \in {"high", "medium", "low"} |-> <<>>]
    /\ behavioral = <<>>
    /\ scan_log = <<>>
    /\ sequence = <<>>
    /\ n_presses = 0
    /\ pressed_in = {}
    /\ consumed = <<>>
    /\ pulse_calls = <<>>
    /\ iti_log = <<>>
    /\ draws = [q \in {"high", "medium", "low"} |-> <<>>]
    /\ target_draws = [n |-> 0, frames |-> {}]
    /\ prev_jitters = <<>>
    /\ files = [behavioral |-> NoFile, scan_log |-> NoFile]
    /\ emitted = <<>>
    /\ seq_file \in SequenceFiles
    /\ fmri = FALSE
    /\ mcculw = FALSE
    /\ backend = "none"
    /\ run_log = <<>>
    /\ hw_count = 0

\* Faulty variant: the file is taken as it is.
load_sequence_unchecked(file) == "DataFrame"

\* session.load_sequence: what the call comes to
load_sequence(file) ==
    IF ~file.exists THEN "FileNotFoundError"
    ELSE IF ~({"cue_type", "target_accuracy"} \subseteq file.columns) THEN "ValueError"
    ELSE "DataFrame"

LoadSequence ==
    /\ pc = "load_sequence"
    /\ pc' = IF load_sequence(seq_file) = "DataFrame" THEN "setup" ELSE "raised"
    /\ UNCHANGED <<now, keyBuffer, kbClockReset, timer_end, phase_start,
                   trial_n, row, trialLocals, total_earned, nominal_time,
                   tr_within, scan_phases, iti_done, time_onset, pulse_last,
                   pulse_ct, responses, behavioral, scan_log, sequence,
                   n_presses, pressed_in, consumed, pulse_calls, iti_log,
                   draws, target_draws, prev_jitters, files, emitted,
                   seq_file, driverVars, hw_count>>

\* The writers are constructed, the scan starts, the initial fixation runs.
Setup ==
    /\ pc = "setup"
    /\ files' = [behavioral |-> CsvWriter(BEHAVIORAL_COLUMNS),
                 scan_log |-> CsvWriter(SCAN_LOG_COLUMNS)]
    /\ now' = INITIAL_FIX_DUR_S
    /\ nominal_time' = INITIAL_FIX_DUR_S
    /\ backend' = "emulated"
    /\ run_log' = StartLog
    /\ pc' = "run"
    /\ UNCHANGED <<keyBuffer, kbClockReset, timer_end, phase_start, trial_n,
                   row, trialLocals, total_earned, tr_within, scan_phases,
                   iti_done, time_onset, pulse_last, pulse_ct, responses,
                   behavioral, scan_log, sequence, n_presses, pressed_in,
                   consumed, pulse_calls, iti_log, draws, target_draws,
                   prev_jitters, emitted, seq_file, fmri, mcculw, hw_count>>

\* __main__.py lines 157-161 over a sequence without the column n_iti: the
\* staircase is asked for an intensity, then int(row["n_iti"]) raises KeyError.
RowKeyError(E) ==
    /\ pc = "run"
    /\ trial_n < E.n_trials
    /\ "n_iti" \notin seq_file.columns
    /\ \E r \in E.rows, raw \in E.raws :
        /\ row' = r
        /\ sequence' = Append(sequence, r)
        /\ intensity' = next_intensity(raw)
        /\ draws' = [draws EXCEPT ![QUEST_NAME(r.target_accuracy)] = Append(@, raw)]
    /\ trial_n' = trial_n + 1
    /\ pc' = "raised"
    /\ UNCHANGED <<jitter_s, early_press, hit, rt_s, target_shown, target_removed, clock_reset_scheduled,
                   reward_outcome>>
    /\ UNCHANGED <<now, keyBuffer, kbClockReset, timer_end, phase_start,
                   total_earned, nominal_time, tr_within, scan_phases,
                   iti_done, time_onset, pulse_last, pulse_ct, responses,
                   behavioral, scan_log, n_presses, pressed_in, consumed,
                   pulse_calls, iti_log, target_draws, prev_jitters, files,
                   emitted, seq_file, driverVars, hw_count>>

NextStartup ==
    \/ LoadSequence
    \/ Setup
    \/ RowKeyError(EnvRerun)
    \/ Next(EnvRerun)

SpecStartup == InitStartup /\ [][NextStartup]_vars

BadSequence == ~seq_file.exists \/ ~(SequenceColumns \subseteq seq_file.columns)

(***************************************************************************)
(* C30: when the sequence file does not exist or lacks one of the columns  *)
(* cue_type, target_accuracy, n_iti, the run fails before any trial runs:  *)
(* no phase of trial 1 is entered and no trial or phase row is written.    *)
(***************************************************************************)
C30_MissingSequenceFatal ==
    BadSequence =>
        /\ pc \in {"load_sequence", "setup", "run", "raised"}
        /\ pc = "run" => trial_n = 0
        /\ scan_phases = <<>>
        /\ behavioral = <<>> /\ scan_log = <<>> /\ emitted = <<>>
        /\ \A w \in {"behavioral", "scan_log"} :
               \A k \in 1..Len(files[w].disk \o files[w].buf) :
                   (files[w].disk \o files[w].buf)[k] = Columns(w)

\* A sequence file without n_iti passed load_sequence, and the run failed at
\* the head of trial 1 with only the headers written.
C30_Witness ==
    /\ pc = "raised"
    /\ seq_file = [exists |-> TRUE, columns |-> {"cue_type", "target_accuracy"}]
    /\ trial_n = 1
    /\ files.behavioral.buf = <<BEHAVIORAL_COLUMNS>>
    /\ scan_phases = <<>>

(***************************************************************************)
(* run() from the construction of the scanner backend to core.quit(): the  *)
(* sequence is loaded and the writers are open; the backend is made, the   *)
(* scan start is awaited, the global clock is reset, the initial fixation  *)
(* runs, the trial loop runs, then the closing fixation, the end screen    *)
(* and the cleanup.                                                        *)
(***************************************************************************)
InitDriver ==
    /\ pc = "make_backend"
    /\ now = 0
    /\ keyBuffer = <<>>
    /\ kbClockReset = 0
    /\ timer_end = 0
    /\ phase_start = 0
    /\ trial_n = 0
    /\ row = NoRow
    /\ jitter_s = 0
    /\ intensity = 0
    /\ early_press = FALSE
    /\ hit = FALSE
    /\ rt_s = <<>>
    /\ target_shown = FALSE
    /\ target_removed = FALSE
    /\ clock_reset_scheduled = FALSE
    /\ reward_outcome = "$0"
    /\ total_earned = 0
    /\ nominal_time = 0
    /\ tr_within = 0
    /\ scan_phases = <<>>
    /\ iti_done = 0
    /\ time_onset = 0
    /\ pulse_last = 0
    /\ pulse_ct = 0
    /\ responses = [q \in {"high", "medium", "low"} |-> <<>>]
    /\ behavioral = <<>>
    /\ scan_log = <<>>
    /\ sequence = <<>>
    /\ n_presses = 0
    /\ pressed_in = {}
    /\ consumed = <<>>
    /\ pulse_calls = <<>>
    /\ iti_log = <<>>
    /\ draws = [q \in {"high", "medium", "low"} |-> <<>>]
    /\ target_draws = [n |-> 0, frames |-> {}]
    /\ prev_jitters = <<>>
    /\ files = [behavioral |-> CsvWriter(BEHAVIORAL_COLUMNS),
                scan_log |-> CsvWriter(SCAN_LOG_COLUMNS)]
    /\ emitted = <<>>
    /\ seq_file = [exists |-> TRUE, columns |-> SequenceColumns]
    /\ fmri \in BOOLEAN
    /\ mcculw \in BOOLEAN
    /\ backend = "none"
    /\ run_log = <<>>
    /\ hw_count = 0

\* Faulty variant: without the library the emulated backend is handed out.
make_backend_fallback(f, lib) == IF f /\ lib THEN "hardware" ELSE "emulated"

\* scanner.make_backend(fmri) where the import of mcculw succeeds or not:
\* HardwareBackend.__init__ turns the import error into a RuntimeError.
make_backend(f, lib) ==
    IF f THEN (IF lib THEN "hardware" ELSE "RuntimeError") ELSE "emulated"

\* __main__.py line 105; nothing in run() catches the exception.
MakeBackend ==
    /\ pc = "make_backend"
    /\ LET b == make_backend(fmri, mcculw) IN
        IF b = "RuntimeError"
        THEN pc' = "raised" /\ UNCHANGED backend
        ELSE pc' = "wait_start" /\ backend' = b
    /\ UNCHANGED <<now, keyBuffer, kbClockReset, timer_end, phase_start,
                   trial_n, row, trialLocals, total_earned, nominal_time,
                   tr_within, scan_phases, iti_done, time_onset, pulse_last,
                   pulse_ct, responses, behavioral, scan_log, sequence,
                   n_presses, pressed_in, consumed, pulse_calls, iti_log,
                   draws, target_draws, prev_jitters, files, emitted,
                   seq_file, fmri, mcculw, run_log, hw_count>>

\* The first TR pulse arrives (fmri) or the start key is pressed; backend.start().
ScanStart ==
    /\ pc = "wait_start"
    /\ run_log' = Append(run_log, "scan_start")
    /\ pc' = "clock_reset"
    /\ UNCHANGED <<now, keyBuffer, kbClockReset, timer_end, phase_start,
                   trial_n, row, trialLocals, total_earned, nominal_time,
                   tr_within, scan_phases, iti_done, time_onset, pulse_last,
                   pulse_ct, responses, behavioral, scan_log, sequence,
                   n_presses, pressed_in, consumed, pulse_calls, iti_log,
                   draws, target_draws, prev_jitters, files, emitted,
                   seq_file, fmri, mcculw, backend, hw_count>>

\* global_clock.reset(); t_fix_end = INITIAL_FIX_DUR_S
GlobalClockReset ==
    /\ pc = "clock_reset"
    /\ now' = 0
    /\ timer_end' = INITIAL_FIX_DUR_S
    /\ run_log' = Append(run_log, "clock_reset")
    /\ pc' = "initial_fixation"
    /\ UNCHANGED <<keyBuffer, kbClockReset, phase_start,
                   trial_n, row, trialLocals, total_earned, nominal_time,
                   tr_within, scan_phases, iti_done, time_onset, pulse_last,
                   pulse_ct, responses, behavioral, scan_log, sequence,
                   n_presses, pressed_in, consumed, pulse_calls, iti_log,
                   draws, target_draws, prev_jitters, files, emitted,
                   seq_file, fmri, mcculw, backend, hw_count>>

\* One pass of the initial fixation loop: a flip of d ticks.
InitialFixIter(E) ==
    /\ pc = "initial_fixation"
    /\ now < timer_end
    /\ \E d \in E.frames.initial : now' = now + d
    /\ UNCHANGED <<keyBuffer, kbClockReset, timer_end, phase_start,
                   trial_n, row, trialLocals, total_earned, nominal_time,
                   tr_within, scan_phases, iti_done, time_onset, pulse_last,
                   pulse_ct, responses, behavioral, scan_log, sequence,
                   n_presses, pressed_in, consumed, pulse_calls, iti_log,
                   draws, target_draws, prev_jitters, files, emitted,
                   seq_file, driverVars, hw_count>>
    /\ UNCHANGED pc

\* The loop is left and nominal_time is seeded from the clock.
InitialFixExit(E) ==
    /\ pc = "initial_fixation"
    /\ now >= timer_end
    /\ nominal_time' = now
    /\ run_log' = run_log \o <<"initial_fixation", "nominal_time">>
    /\ pc' = "run"
    /\ UNCHANGED <<now, keyBuffer, kbClockReset, timer_end, phase_start,
                   trial_n, row, trialLocals, total_earned,
                   tr_within, scan_phases, iti_done, time_onset, pulse_last,
                   pulse_ct, responses, behavioral, scan_log, sequence,
                   n_presses, pressed_in, consumed, pulse_calls, iti_log,
                   draws, target_draws, prev_jitters, files, emitted,
                   seq_file, fmri, mcculw, backend, hw_count>>

\* waitKeys(keyList=["0"]) returns: the experimenter dismissed the end screen.
Dismiss ==
    /\ pc = "end_screen"
    /\ run_log' = Append(run_log, "dismissed")
    /\ pc' = "cleanup"
    /\ UNCHANGED <<now, keyBuffer, kbClockReset, timer_end, phase_start,
                   trial_n, row, trialLocals, total_earned, nominal_time,
                   tr_within, scan_phases, iti_done, time_onset, pulse_last,
                   pulse_ct, responses, behavioral, scan_log, sequence,
                   n_presses, pressed_in, consumed, pulse_calls, iti_log,
                   draws, target_draws, prev_jitters, files, emitted,
                   seq_file, fmri, mcculw, backend, hw_count>>

\* behavioral_writer.close(); scan_log_writer.close(); ...; core.quit()
Cleanup ==
    /\ pc = "cleanup"
    /\ files' = [behavioral |-> flush(files.behavioral),
                 scan_log |-> flush(files.scan_log)]
    /\ run_log' = Append(run_log, "writers_closed")
    /\ pc' = "exit"
    /\ UNCHANGED <<now, keyBuffer, kbClockReset, timer_end, phase_start,
                   trial_n, row, trialLocals, total_earned, nominal_time,
                   tr_within, scan_phases, iti_done, time_onset, pulse_last,
                   pulse_ct, responses, behavioral, scan_log, sequence,
                   n_presses, pressed_in, consumed, pulse_calls, iti_log,
                   draws, target_draws, prev_jitters, emitted,
                   seq_file, fmri, mcculw, backend, hw_count>>

\* A run of MaxTrials trials without keys; the frames of the two fixations of
\* the driver take MaxFrame - 1 or MaxFrame ticks.
EnvDriver ==
    [frames |-> [cue |-> {MaxFrame}, fixation |-> {MaxFrame}, response |-> {MaxFrame},
                 outcome |-> {MaxFrame}, iti |-> {MaxFrame},
                 initial |-> {MaxFrame - 1, MaxFrame},
                 closing |-> {MaxFrame - 1, MaxFrame}],
     keys |-> [cue |-> {}, fixation |-> {}, response |-> {}, outcome |-> {},
               iti |-> {}, closing |-> {}],
     rows |-> {r \in Rows : r.cue_type = "neutral" /\ r.target_accuracy = 50
                              /\ r.n_iti = 1},
     raws |-> {0},
     jitters |-> Jitters,
     presses |-> 0,
     n_trials |-> MaxTrials,
     count_draws |-> FALSE]

NextDriver ==
    \/ MakeBackend
    \/ ScanStart
    \/ GlobalClockReset
    \/ InitialFixIter(EnvDriver)
    \/ InitialFixExit(EnvDriver)
    \/ Next(EnvDriver)
    \/ ClosingStart(EnvDriver)
    \/ ClosingIter(EnvDriver)
    \/ ClosingExit(EnvDriver)
    \/ Dismiss
    \/ Cleanup

SpecDriver == InitDriver /\ [][NextDriver]_vars

(***************************************************************************)
(* C31: in a scanner run (fmri true) on a machine where the DAQ library    *)
(* cannot be loaded, no backend is ever handed to the run, the emulated    *)
(* one least of all: the run stops at make_backend, before the scan start  *)
(* is awaited, and no trial runs.                                          *)
(***************************************************************************)
C31_NoSilentEmulation ==
    (fmri /\ ~mcculw) =>
        /\ backend = "none"
        /\ pc \in {"make_backend", "raised"}
        /\ run_log = <<>>
        /\ trial_n = 0

\* The construction of the hardware backend raised.
C31_Witness == fmri /\ ~mcculw /\ pc = "raised" /\ backend = "none"

\* The steps of run() around the trial loop, in the order of the code.
DriverOrder ==
    StartLog \o <<"closing_fixation", "end_screen", "dismissed", "writers_closed">>

IsPrefix(a, b) == Len(a) <= Len(b) /\ \A k \in 1..Len(a) : a[k] = b[k]

Logged(e) == \E k \in 1..Len(run_log) : run_log[k] = e

(***************************************************************************)
(* C32: the run goes through scan start, global clock reset, an initial    *)
(* fixation of at least INITIAL_FIX_DUR_S, the seeding of nominal_time     *)
(* from the clock, the trials 1..N in the order of the sequence, a closing *)
(* fixation of at least CLOSING_FIX_DUR_S, the end screen, its dismissal   *)
(* and the closing of the writers, in that order: no trial begins before   *)
(* the initial fixation is over, the closing fixation begins after trial N *)
(* only, and the writers are closed with every row of every trial on disk. *)
(***************************************************************************)
C32_RunOrder ==
    /\ IsPrefix(run_log, DriverOrder)
    /\ (trial_n > 0 \/ pc \in InTrial) =>
           /\ Logged("nominal_time")
           /\ now >= INITIAL_FIX_DUR_S
           /\ nominal_time >= INITIAL_FIX_DUR_S
    /\ Logged("initial_fixation") => now >= INITIAL_FIX_DUR_S
    /\ \A k \in 1..Len(behavioral) :
           /\ behavioral[k].trial_n = k
           /\ behavioral[k].cue_type = sequence[k].cue_type
           /\ behavioral[k].target_accuracy = sequence[k].target_accuracy
    /\ Logged("closing_fixation") =>
           /\ pc \notin InTrial /\ pc # "run"
           /\ trial_n = EnvDriver.n_trials
           /\ Len(behavioral) = EnvDriver.n_trials
    /\ Logged("end_screen") =>
           now >= Last(behavioral).time_trial_end + CLOSING_FIX_DUR_S
    /\ Logged("writers_closed") =>
           /\ pc = "exit"
           /\ \A w \in {"behavioral", "scan_log"} :
                  /\ files[w].buf = <<>>
                  /\ Len(files[w].disk) = 1 + Len(Appended(w))
           /\ Len(scan_log) >= 4 * EnvDriver.n_trials

\* The run went through all its steps and the process has exited.
C32_Witness ==
    /\ pc = "exit"
    /\ run_log = DriverOrder
    /\ Len(behavioral) = EnvDriver.n_trials
    /\ Len(files.behavioral.disk) = 1 + EnvDriver.n_trials

(***************************************************************************)
(* The global clock is set back between two trials: after the record of a  *)
(* trial is written and before the next trial reads the clock for its cue  *)
(* onset (trial.py line 268), getTime() returns less than it did at the    *)
(* end of the trial before.                                                *)
(***************************************************************************)
ClockRegress ==
    /\ pc = "run"
    /\ behavioral # <<>>
    /\ now = Last(behavioral).time_trial_end
    /\ now' = now - 1
    /\ UNCHANGED <<pc, keyBuffer, kbClockReset, timer_end, phase_start,
                   trial_n, row, trialLocals, total_earned, nominal_time,
                   tr_within, scan_phases, iti_done, time_onset, pulse_last,
                   pulse_ct, responses, behavioral, scan_log, sequence,
                   n_presses, pressed_in, consumed, pulse_calls, iti_log,
                   draws, target_draws, prev_jitters, files, emitted,
                   seq_file, driverVars, hw_count>>

SpecClock == Init /\ [][Next(EnvRerun) \/ ClockRegress]_vars

(***************************************************************************)
(* C33: a reading of the global clock lower than an earlier reading stops  *)
(* the run: no trial is run whose cue onset was read below the end time of *)
(* the trial before it.                                                    *)
(***************************************************************************)
C33_ClockRegressFatal ==
    /\ \A k \in 2..Len(behavioral) :
           behavioral[k].time_onset >= behavioral[k - 1].time_trial_end
    /\ (pc \in InTrial /\ trial_n > 1) =>
           time_onset >= Last(behavioral).time_trial_end

\* A run whose flips may stall as in EnvDrift, over rows without or with
\* MaxIti post-outcome fixations, whose flips take one tick each.
EnvStall ==
    [frames |-> [cue |-> {MaxFrame, StallFrame}, fixation |-> {MaxFrame},
                 response |-> {MaxFrame}, outcome |-> {MaxFrame, StallFrame},
                 iti |-> {1}],
     keys |-> [cue |-> {}, fixation |-> {}, response |-> {}, outcome |-> {},
               iti |-> {}],
     rows |-> {r \in DriftRows : r.n_iti # 1},
     raws |-> {0},
     jitters |-> {0},
     presses |-> 0,
     n_trials |-> MaxTrials,
     count_draws |-> FALSE]

SpecStall == Init /\ [][Next(EnvStall)]_vars

\* The nominal_time run_trial k was called with: the seed of the run for the
\* first trial, what the trial before returned for the others.
NominalIn(k) ==
    IF k = 1 THEN INITIAL_FIX_DUR_S ELSE behavioral[k - 1].time_sched_end

(***************************************************************************)
(* C34: the nominal_time a trial returns, recorded as time_sched_end, is   *)
(* the nominal_time it was called with plus 2.0 s for each of its          *)
(* 4 + n_iti_trs phases, whatever the actual timing was; the driver goes   *)
(* on with that value.                                                     *)
(***************************************************************************)
C34_NominalAdvance ==
    /\ \A k \in 1..Len(behavioral) :
           behavioral[k].time_sched_end =
               NominalIn(k) + TwoSec * (4 + sequence[k].n_iti)
    /\ TrialDone => nominal_time = Rec.time_sched_end

\* Two trials are over, their numbers of post-outcome fixations differ, and
\* the second ended later than scheduled.
C34_Witness ==
    /\ Len(behavioral) = 2
    /\ sequence[1].n_iti # sequence[2].n_iti
    /\ behavioral[2].time_trial_end > behavioral[2].time_sched_end

(***************************************************************************)
(* C35: at most one response event is consumed in a trial, and from the    *)
(* moment it is consumed rt_s and hit are those of that event: no later    *)
(* key press of the response phase changes them.                           *)
(***************************************************************************)
C35_OneResponseConsumed ==
    consumed # <<>> =>
        /\ Len(consumed) = 1
        /\ rt_s = <<consumed[1].rt>>
        /\ hit = consumed[1].visible

\* The records of the trials of level q among the first k trials.
TrialsOf(q, k) == {j \in 1..k : behavioral[j].quest = q}

(***************************************************************************)
(* C36: on each level's staircase the calls alternate strictly, a          *)
(* next_intensity first, then an add_response.  A trial draws exactly one  *)
(* intensity, before its cue, from the staircase of its level, and feeds   *)
(* it exactly one response, the recorded hit, once the response phase is   *)
(* over and before the outcome phase; the k-th trial of a level is         *)
(* recorded with staircase trial number k.                                 *)
(***************************************************************************)
C36_StaircaseAlternation ==
    /\ \A q \in {"high", "medium", "low"} :
           /\ Len(draws[q]) \in {Len(responses[q]), Len(responses[q]) + 1}
           /\ Len(draws[q]) = Len(responses[q]) + 1 <=>
                  /\ pc \in {"cue", "fixation", "response"}
                  /\ q = QUEST_NAME(row.target_accuracy)
    /\ Len(draws.high) + Len(draws.medium) + Len(draws.low) = trial_n
    /\ \A k \in 1..Len(behavioral) :
           LET rec == behavioral[k] IN
               /\ rec.quest = QUEST_NAME(sequence[k].target_accuracy)
               /\ rec.quest_n = Cardinality(TrialsOf(rec.quest, k))
               /\ rec.quest_intensity = next_intensity(draws[rec.quest][rec.quest_n])
               /\ responses[rec.quest][rec.quest_n] = rec.hit

\* Two trials of one level are over, the first a miss and the second a hit.
C36_Witness ==
    /\ Len(behavioral) = 2
    /\ behavioral[1].quest = behavioral[2].quest
    /\ behavioral[2].quest_n = 2
    /\ responses[behavioral[2].quest] = <<0, 1>>

(***************************************************************************)
(* staircase.build_staircases: the handler named q is built for the        *)
(* accuracy zipped with that name, with nTrials the number of rows of the  *)
(* sequence at that accuracy.  RowsAtLevel counts those of the rows the    *)
(* trial loop has reached; the rows still to come only add to nTrials.     *)
(***************************************************************************)
LevelAccuracy == [high |-> 80, medium |-> 50, low |-> 20]

RowsAtLevel(q) ==
    Cardinality({k \in 1..Len(sequence) : sequence[k].target_accuracy = LevelAccuracy[q]})

(***************************************************************************)
(* C37: a staircase is never asked for more intensities than its budget,   *)
(* the number of rows of the sequence at its level, and once the last      *)
(* trial is over it has been asked for exactly that many: no staircase is  *)
(* asked beyond its last trial.                                            *)
(***************************************************************************)
C37_DrawsWithinBudget ==
    \A q \in {"high", "medium", "low"} :
        /\ Len(draws[q]) <= RowsAtLevel(q)
        /\ pc = "closing" => Len(draws[q]) = RowsAtLevel(q)

\* The run is over; it had trials at the 80% level and at the 20% level.
C37_Witness ==
    /\ pc = "closing"
    /\ Len(draws.high) >= 1
    /\ Len(draws.low) >= 1
    /\ Len(draws.high) = RowsAtLevel("high")

(***************************************************************************)
(* C38: at every phase boundary of every trial, and at the end of every    *)
(* trial, the global clock reads at least the nominal time of that point:  *)
(* the nominal_time the trial was called with plus 2.0 s per phase before. *)
(* So every post-outcome fixation is entered with a drift of 0 or more,    *)
(* its computed duration is at most 2.0 s, and the timer that shows it     *)
(* runs for 0 to 2.0 s: the correction shortens, never lengthens.          *)
(***************************************************************************)
C38_ActualNotBeforeNominal ==
    /\ LET pr == PhaseRecords IN
           \A i \in 1..Len(pr) :
               pr[i].phase_global_time
                   >= NominalIn(pr[i].trial_n) + TwoSec * (pr[i].tr_n - 1)
    /\ \A rec \in Records : rec.time_trial_end >= rec.time_sched_end
    /\ \A i \in 1..Len(iti_log) :
           /\ iti_log[i].drift >= 0
           /\ iti_log[i].dur <= STUDY_TIMES_S.iti
           /\ Max(0, iti_log[i].dur) \in 0..STUDY_TIMES_S.iti
    /\ pc = "iti" =>
           timer_end - iti_log[Len(iti_log)].start \in 1..STUDY_TIMES_S.iti

\* The second trial is in a post-outcome fixation shortened by a drift, after
\* a first trial that ended exactly on its schedule.
C38_Witness ==
    /\ pc = "iti"
    /\ trial_n = 2
    /\ behavioral[1].time_trial_end = behavioral[1].time_sched_end
    /\ iti_log[Len(iti_log)].drift > 0
    /\ timer_end - iti_log[Len(iti_log)].start < STUDY_TIMES_S.iti

(***************************************************************************)
(* C39: in every trial record a hit comes with a reaction time and without *)
(* an early press, so a record without reaction time is a miss; and the    *)
(* reaction time is missing exactly when the response phase consumed no    *)
(* response event.                                                         *)
(***************************************************************************)
C39_HitHasRt ==
    /\ \A rec \in Records :
           /\ rec.hit = 1 => (rec.rt_ms # <<>> /\ rec.early_press = 0)
           /\ rec.rt_ms = <<>> => rec.hit = 0
    /\ TrialDone => (Rec.rt_ms = <<>> <=> consumed = <<>>)
    /\ pc \in InTrial => (rt_s = <<>> <=> consumed = <<>>)

\* A trial ended without reaction time although a response key was pressed in
\* its response phase: the early press kept the phase from consuming it.
C39_Witness ==
    /\ TrialDone
    /\ Rec.rt_ms = <<>>
    /\ Rec.early_press = 1
    /\ "response" \in pressed_in
    /\ consumed = <<>>

(***************************************************************************)
(* The run with a process that keeps running, flips that return after a    *)
(* positive time and a scanner that keeps delivering its pulses (Read      *)
(* grows with the time): rows with 0, 1 or MaxIti post-outcome fixations,  *)
(* no keys.                                                                *)
(***************************************************************************)
\* Faulty variant: the clock stands still during the flips of the cue phase.
EnvFrozen ==
    [frames |-> [cue |-> {0}, fixation |-> {MaxFrame}, response |-> {MaxFrame},
                 outcome |-> {MaxFrame}, iti |-> {MaxFrame},
                 initial |-> {MaxFrame}, closing |-> {MaxFrame}],
     keys |-> [cue |-> {}, fixation |-> {}, response |-> {}, outcome |-> {},
               iti |-> {}, closing |-> {}],
     rows |-> DriftRows,
     raws |-> {0},
     jitters |-> {0},
     presses |-> 0,
     n_trials |-> MaxTrials,
     count_draws |-> FALSE]

EnvLive ==
    [frames |-> [cue |-> {MaxFrame}, fixation |-> {MaxFrame}, response |-> {MaxFrame},
                 outcome |-> {MaxFrame}, iti |-> {MaxFrame},
                 initial |-> {MaxFrame}, closing |-> {MaxFrame}],
     keys |-> [cue |-> {}, fixation |-> {}, response |-> {}, outcome |-> {},
               iti |-> {}, closing |-> {}],
     rows |-> DriftRows,
     raws |-> {0},
     jitters |-> {0},
     presses |-> 0,
     n_trials |-> MaxTrials,
     count_draws |-> FALSE]

NextLive ==
    \/ MakeBackend
    \/ ScanStart
    \/ GlobalClockReset
    \/ InitialFixIter(EnvLive)
    \/ InitialFixExit(EnvLive)
    \/ Next(EnvLive)
    \/ ClosingStart(EnvLive)
    \/ ClosingIter(EnvLive)
    \/ ClosingExit(EnvLive)
    \/ Dismiss
    \/ Cleanup

\* A step that can be taken is taken: the process runs, the first pulse or
\* the start key comes, the end screen is dismissed.
SpecLive == InitDriver /\ [][NextLive]_vars /\ WF_vars(NextLive)

=============================================================================
